---- MODULE Spec2Model ----
(***************************************************************************)
(* smoldb: the Bitcask storage engine (src/src/storage/bitcask.rs).        *)
(*                                                                         *)
(* The directory is modelled at the byte level: every .log and .hint file  *)
(* is the sequence of bytes the code writes, and recovery parses those     *)
(* bytes back.  The engine state is the key directory, the writer (its     *)
(* mutex and active file id) and one reader cache per clone of the handle. *)
(* Each clone is driven by one thread; every operation is split at the     *)
(* points where another thread can observe or change shared state.         *)
(***************************************************************************)
EXTENDS Integers, Sequences, FiniteSets, TLC

(***************************************************************************)
(* Bounds of the model.                                                    *)
(***************************************************************************)
\* Number of clones of the engine handle (one thread each); clone 1 is the
\* handle returned by open.
NClones == 2
\* Number of set / remove / compact calls started in one run, with the clones
\* used from concurrent threads and with the clones used one call at a time.
MaxOps == 3
MaxSeqOps == 4
\* The same, in the runs in which the directory is damaged while it is closed
\* (a damage counts as a call).
MaxDamageOps == 3
\* Stands for LOG_SIZE_THRESHOLD = 1024 * 1024 (bitcask.rs:25), scaled to the
\* record sizes of the model (18..21 bytes) so that rotation happens: the
\* second record written to a log file takes it over the threshold.
LOG_SIZE_THRESHOLD == 30

\* bitcask.rs:23
LOWEST_LOG_FILE_ID == 0

\* The strings used as keys and values, as UTF-8 bytes: "", "k" and "", "v", "ww".
Keys == {<<>>, <<107>>}
Values == {<<>>, <<118>>, <<119, 119>>}
\* bitcask.rs:17
TOMBSTONE == <<>>
\* SystemTime::now() in seconds, as read by write_value.
Timestamps == {1}

Clones == 1..NClones

\* The client pool: the tasks that share one Pool, its max_size, and the number
\* of calls of Pool::get begun in one run.
NTasks == 4
MaxSize == 2
MaxAcquires == 4
Tasks == 1..NTasks
\* The connections Connection::new can open in one run.
Connections == 1..MaxAcquires

\* The server connection: the request frames a client sends on it in one run.
MaxFrames == 3

\* The listener: the connections clients open to it in one run.
MaxConnects == 2

\* The thread pool: the largest number of threads given to new, and the jobs
\* passed to spawn in one run.
MaxThreads == 2
NJobs == 3
Workers == 1..MaxThreads
Jobs == 1..NJobs

(***************************************************************************)
(* Byte codecs (byteorder::BigEndian) and the CRC.                         *)
(***************************************************************************)
\* F applied to the value of x: x is evaluated once, before F (a `let`).
Apply(F(_), x) == CHOOSE y \in {F(v) : v \in {x}} : TRUE

\* n shifted right by j bytes.
RECURSIVE ShiftBytes(_, _)
ShiftBytes(n, j) == IF j = 0 THEN n ELSE ShiftBytes(n \div 256, j - 1)

\* write_u16 / write_u32 / write_u64 ::<BigEndian>: the low w bytes of n, most
\* significant first (an `as u32` cast keeps the low 4 bytes in the same way).
BE(n, w) == [i \in 1..w |-> ShiftBytes(n, w - i) % 256]

\* read_u16 / read_u32 / read_u64 ::<BigEndian>
RECURSIVE FromBEAt(_, _, _)
FromBEAt(bytes, pos, w) ==
    IF w = 0 THEN 0 ELSE 256 * FromBEAt(bytes, pos, w - 1) + bytes[pos + w]

\* The w bytes after offset pos of bytes, read as a big-endian number.
FromBE(bytes, pos, w) == FromBEAt(bytes, pos, w)

RECURSIVE Xor(_, _)
Xor(a, b) ==
    IF a = 0 THEN b
    ELSE IF b = 0 THEN a
    ELSE (((a % 2) + (b % 2)) % 2) + 2 * Xor(a \div 2, b \div 2)

\* One byte through the reflected CRC register: 8 shifts with poly 0x8408.
RECURSIVE CrcBits(_, _)
CrcBits(crc, n) ==
    IF n = 0 THEN crc
    ELSE LET shifted == IF crc % 2 = 1 THEN Xor(crc \div 2, 33800) ELSE crc \div 2
         IN CrcBits(shifted, n - 1)

CrcTable == [b \in 0..255 |-> CrcBits(b, 8)]

\* crc::CRC_16_IBM_SDLC: poly 0x1021 reflected (0x8408), init 0xffff, xorout 0xffff.
Crc16(bytes) ==
    LET reg[i \in 0..Len(bytes)] ==
            IF i = 0 THEN 65535
            ELSE Apply(LAMBDA prev : Xor(CrcTable[Xor(prev % 256, bytes[i])],
                                         prev \div 256),
                       reg[i - 1])
    IN Xor(reg[Len(bytes)], 65535)

\* The bytes the checksum covers: timestamp, key_len, value_len, key, value.
EntryBytes(timestamp, key_len, value_len, key, value) ==
    BE(timestamp, 8) \o BE(key_len, 4) \o BE(value_len, 4) \o key \o value

\* The checksums of the records the engine can write, computed once.
X25Table ==
    [b \in {EntryBytes(t, Len(k), Len(v), k, v) : t \in Timestamps, k \in Keys, v \in Values}
        |-> Crc16(b)]

\* X25.checksum
X25(bytes) == IF bytes \in DOMAIN X25Table THEN X25Table[bytes] ELSE Crc16(bytes)

\* checksum (2) + timestamp (8) + key_len (4) + val_len (4)
HeaderSize == 18
\* timestamp (8) + key_len (4) + val_len (4) + val_pos (8)
HintHeaderSize == 24

\* String::from_utf8 on the bytes of the model's alphabet (ASCII is valid UTF-8;
\* a byte >= 128 only comes from reading a header field as text).
ValidUtf8(bytes) == \A i \in 1..Len(bytes) : bytes[i] < 128

(***************************************************************************)
(* Entry and the record / hint formats.                                    *)
(***************************************************************************)
Entry(file_id, value_len, value_pos, timestamp) ==
    [file_id |-> file_id, value_len |-> value_len,
     value_pos |-> value_pos, timestamp |-> timestamp]

\* A write_value that takes the position after the write for the position of
\* the value.
write_value_end(bytes, file_id, key, value, timestamp) ==
    LET key_len == Len(key)
        value_len == Len(value)
        entry == EntryBytes(timestamp, key_len, value_len, key, value)
        checksum == X25(entry)
        written == bytes \o BE(checksum, 2) \o entry
    IN [bytes |-> written,
        entry |-> Entry(file_id, value_len, Len(written), timestamp)]

\* write_value: appends checksum + entry to the file; the position after the
\* write is the end of the (append-mode) file.
write_value(bytes, file_id, key, value, timestamp) ==
    LET key_len == Len(key)
        value_len == Len(value)
        entry == EntryBytes(timestamp, key_len, value_len, key, value)
        checksum == X25(entry)
        written == bytes \o BE(checksum, 2) \o entry
        value_pos == Len(written) - value_len
    IN [bytes |-> written,
        entry |-> Entry(file_id, value_len, value_pos, timestamp)]

\* read_value: seek to value_pos, read_exact value_len bytes, decode as UTF-8.
read_value(bytes, entry) ==
    IF entry.value_pos + entry.value_len > Len(bytes)
    THEN [tag |-> "Io", val |-> <<>>]
    ELSE LET value_bytes == SubSeq(bytes, entry.value_pos + 1,
                                   entry.value_pos + entry.value_len)
         IN IF ValidUtf8(value_bytes)
            THEN [tag |-> "Ok", val |-> value_bytes]
            ELSE [tag |-> "Utf8", val |-> <<>>]

\* read_next_entry at byte offset pos of a log file.
read_next_entry(bytes, pos, file_id) ==
    IF pos = Len(bytes) THEN [tag |-> "Eof"]
    ELSE IF pos + HeaderSize > Len(bytes) THEN [tag |-> "Io"]
    ELSE
      LET checksum == FromBE(bytes, pos, 2)
          timestamp == FromBE(bytes, pos + 2, 8)
          key_len == FromBE(bytes, pos + 10, 4)
          value_len == FromBE(bytes, pos + 14, 4)
          value_pos == pos + HeaderSize + key_len
      IN IF value_pos + value_len > Len(bytes) THEN [tag |-> "Io"]
         ELSE
           LET key_bytes == SubSeq(bytes, pos + HeaderSize + 1, value_pos)
               value_bytes == SubSeq(bytes, value_pos + 1, value_pos + value_len)
               read_checksum ==
                   X25(EntryBytes(timestamp, key_len, value_len, key_bytes, value_bytes))
           IN IF checksum # read_checksum THEN [tag |-> "DataCorruption"]
              ELSE IF ~ValidUtf8(key_bytes) THEN [tag |-> "Utf8"]
              ELSE [tag |-> "Entry", key |-> key_bytes,
                    entry |-> Entry(file_id, value_len, value_pos, timestamp),
                    next |-> value_pos + value_len]

\* A hint that leaves the key out.
write_hint_keyless(bytes, key, entry) ==
    bytes \o BE(entry.timestamp, 8) \o BE(Len(key), 4) \o BE(entry.value_len, 4)
          \o BE(entry.value_pos, 8)

\* write_hint
write_hint(bytes, key, entry) ==
    bytes \o BE(entry.timestamp, 8) \o BE(Len(key), 4) \o BE(entry.value_len, 4)
          \o BE(entry.value_pos, 8) \o key

\* read_next_hint at byte offset pos of a hint file.
read_next_hint(bytes, pos, file_id) ==
    IF pos = Len(bytes) THEN [tag |-> "Eof"]
    ELSE IF pos + HintHeaderSize > Len(bytes) THEN [tag |-> "Io"]
    ELSE
      LET timestamp == FromBE(bytes, pos, 8)
          key_len == FromBE(bytes, pos + 8, 4)
          value_len == FromBE(bytes, pos + 12, 4)
          value_pos == FromBE(bytes, pos + 16, 8)
      IN IF pos + HintHeaderSize + key_len > Len(bytes) THEN [tag |-> "Io"]
         ELSE
           LET key_bytes == SubSeq(bytes, pos + HintHeaderSize + 1,
                                   pos + HintHeaderSize + key_len)
           IN IF ~ValidUtf8(key_bytes) THEN [tag |-> "Utf8"]
              ELSE [tag |-> "Entry", key |-> key_bytes,
                    entry |-> Entry(file_id, value_len, value_pos, timestamp),
                    next |-> pos + HintHeaderSize + key_len]

(***************************************************************************)
(* The directory on disk and recovery (Bitcask::open).                     *)
(***************************************************************************)
\* log_path / hint_path: the name of a file of the directory.
log_path(gen) == [id |-> gen, ext |-> "log"]
hint_path(gen) == [id |-> gen, ext |-> "hint"]

\* The directory with file name holding bytes (created if missing).
Put(d, name, bytes) ==
    [n \in DOMAIN d \cup {name} |-> IF n = name THEN bytes ELSE d[n]]

\* OpenOptions::new().create(true).append(true).open(name): the file is created
\* empty if it does not exist and is left as it is otherwise.
Create(d, name) == IF name \in DOMAIN d THEN d ELSE Put(d, name, <<>>)

\* Option<u64>::None for the hint file id.
NoFile == -1

Max(S) == CHOOSE x \in S : \A y \in S : y <= x
Min(S) == CHOOSE x \in S : \A y \in S : x <= y

\* Mutant of SortedSeq: the ids in descending order, as if open sorted the log
\* files the wrong way round.
RECURSIVE SortedDescending(_)
SortedDescending(S) ==
    IF S = {} THEN <<>> ELSE <<Max(S)>> \o SortedDescending(S \ {Max(S)})

\* sort_unstable on the ids of the log files.
RECURSIVE SortedSeq(_)
SortedSeq(S) == IF S = {} THEN <<>> ELSE <<Min(S)>> \o SortedSeq(S \ {Min(S)})

\* SkipMap::insert
Insert(kd, key, entry) ==
    [k \in DOMAIN kd \cup {key} |-> IF k = key THEN entry ELSE kd[k]]

\* while let Some((key, entry)) = read_next_hint(..)? { key_dir.insert(key, entry) }
RECURSIVE LoadHint(_, _, _, _)
LoadHint(bytes, pos, file_id, kd) ==
    Apply(LAMBDA r :
            IF r.tag = "Eof" THEN [tag |-> "Ok", key_dir |-> kd]
            ELSE IF r.tag = "Entry"
                 THEN Apply(LAMBDA inserted : LoadHint(bytes, r.next, file_id, inserted),
                            Insert(kd, r.key, r.entry))
            ELSE [tag |-> r.tag, key_dir |-> kd],
          read_next_hint(bytes, pos, file_id))

\* while let Some((key, entry)) = read_next_entry(..)? { key_dir.insert(key, entry) }
RECURSIVE LoadLog(_, _, _, _)
LoadLog(bytes, pos, file_id, kd) ==
    Apply(LAMBDA r :
            IF r.tag = "Eof" THEN [tag |-> "Ok", key_dir |-> kd]
            ELSE IF r.tag = "Entry"
                 THEN Apply(LAMBDA inserted : LoadLog(bytes, r.next, file_id, inserted),
                            Insert(kd, r.key, r.entry))
            ELSE [tag |-> r.tag, key_dir |-> kd],
          read_next_entry(bytes, pos, file_id))

\* for file_id in log_files.iter() { ... }: the log files in ascending order.
RECURSIVE LoadLogs(_, _, _, _)
LoadLogs(d, log_files, i, kd) ==
    IF i > Len(log_files) THEN [tag |-> "Ok", key_dir |-> kd]
    ELSE Apply(LAMBDA r : IF r.tag = "Ok"
                          THEN LoadLogs(d, log_files, i + 1, r.key_dir)
                          ELSE r,
               LoadLog(d[log_path(log_files[i])], 0, log_files[i], kd))

\* The filter of open on the log file ids: those above the highest hint file.
NewerThanHint(file_id, hint_file) ==
    IF hint_file = NoFile THEN TRUE ELSE file_id > hint_file

\* An open that takes the lowest of the log files for the active file.
OpenActiveFileIdLowest(log_files, hint_file) ==
    IF log_files # <<>> THEN log_files[1]
    ELSE IF hint_file # NoFile THEN hint_file + 1
    ELSE LOWEST_LOG_FILE_ID

\* The active file id chosen by open.
OpenActiveFileId(log_files, hint_file) ==
    IF log_files # <<>> THEN log_files[Len(log_files)]
    ELSE IF hint_file # NoFile THEN hint_file + 1
    ELSE LOWEST_LOG_FILE_ID

\* The scan of the directory by open: the highest hint file id and the sorted
\* ids of the log files above it.
ScanDir(d) ==
    LET hint_ids == {n.id : n \in {m \in DOMAIN d : m.ext = "hint"}}
        log_ids == {n.id : n \in {m \in DOMAIN d : m.ext = "log"}}
    IN Apply(LAMBDA hint_file :
               [hint_file |-> hint_file,
                log_files |-> SortedSeq({f \in log_ids : NewerThanHint(f, hint_file)})],
             IF hint_ids = {} THEN NoFile ELSE Max(hint_ids))

\* An open that loads the log files first and the hint file after them.
LoadKeyDirHintLast(d, hint_file, log_files) ==
    IF hint_file = NoFile THEN LoadLogs(d, log_files, 1, <<>>)
    ELSE Apply(LAMBDA r :
                 IF r.tag # "Ok" THEN r
                 ELSE LoadHint(d[hint_path(hint_file)], 0, hint_file, r.key_dir),
               LoadLogs(d, log_files, 1, <<>>))

\* The key directory built by open: the hint file first (its merge file must
\* open for reading), then the log files in ascending order.
LoadKeyDir(d, hint_file, log_files) ==
    IF hint_file = NoFile THEN LoadLogs(d, log_files, 1, <<>>)
    ELSE Apply(LAMBDA h :
                 IF h.tag # "Ok" THEN h
                 ELSE IF log_path(hint_file) \notin DOMAIN d
                      THEN [tag |-> "Io", key_dir |-> <<>>]
                 ELSE LoadLogs(d, log_files, 1, h.key_dir),
               LoadHint(d[hint_path(hint_file)], 0, hint_file, <<>>))

\* Bitcask::open on the directory d (a function from file names to bytes).
\* The result carries the key directory, the active file id, the readers opened
\* while scanning and the directory with the active file created.
Open(d) ==
    Apply(LAMBDA s :
      Apply(LAMBDA loaded :
        [tag |-> loaded.tag,
         key_dir |-> loaded.key_dir,
         active_file_id |-> OpenActiveFileId(s.log_files, s.hint_file),
         readers |-> {s.log_files[i] : i \in 1..Len(s.log_files)}
                         \cup (IF s.hint_file = NoFile THEN {} ELSE {s.hint_file}),
         dir |-> IF loaded.tag = "Ok"
                 THEN Create(d, log_path(OpenActiveFileId(s.log_files, s.hint_file)))
                 ELSE d],
        LoadKeyDir(d, s.hint_file, s.log_files)),
      ScanDir(d))

(***************************************************************************)
(* State.                                                                  *)
(***************************************************************************)
VARIABLES
    files,           \* the directory: file name -> bytes
    orphans,         \* deleted log files still held open by a cached reader: id -> bytes
    opened,          \* the result of the last Bitcask::open
    key_dir,         \* Bitcask.key_dir, shared by all clones
    active_file_id,  \* Writer.active_file_id
    lock,            \* holder of the writer mutex, 0 when free
    readers,         \* Reader.readers of each clone: the file ids with a cached reader
    pc,              \* where each clone's thread is in its current call
    local,           \* the local variables of the current call
    result,          \* what the call returned, while the caller holds it
    ops,             \* number of set / remove / compact calls started
    mode,            \* how the clones are used: "threads", "sequence", "crash",
                     \* "foreign" (in sequence, next to a foreign file), or
                     \* "damage" (in sequence, with damage to the closed files)
    \* History, read by the properties only:
    latest,          \* per key, the last set or remove that returned Ok ("Raced"
                     \* when a remove returns after a set that began after it)
    appended,        \* per key, the entry of the record appended last for it
                     \* (of the records open found, after a reopen)
    before,          \* what get and list_keys returned when a compact began,
                     \* or just before the directory was reopened
    expect,          \* what a running get has to return after a completed set;
                     \* for a running remove, whether a set has overtaken it
    \* The client's connection pool (client/pool.rs):
    slots,           \* PoolInner.slots: the idle connections, front first
    semaphore,       \* PoolInner.semaphore: its permits and its queue of waiters
    pool_alive,      \* some clone of the Pool still exists
    task_pc,         \* where each task is in Pool::get or with its Object
    object,          \* Object.inner of the handle each task holds, 0 for none
    connection,      \* per connection: "none", "connecting", "open" or "closed"
    broken,          \* the connections on which a read or a write has failed
    acquires,        \* number of calls of Pool::get begun
    ticket,          \* history: the rank of each task's last Pool::get, 0 when
                     \* it was cancelled
    handed,          \* history: number of handles Pool::get has returned
    \* One connection of the server (server/server.rs):
    stream,          \* request frames written by the client, not yet read
    eof,             \* the client has closed its side
    serve_pc,        \* where serve is: "read", "write" or returned
    request,         \* the request serve is handling
    written,         \* the response frames serve has written, in order
    decoded,         \* history: the request frames serve has read, in order
    sent,            \* number of request frames the client has written
    \* The listener of the server (server/server.rs, run and listen):
    listen_pc,       \* where listen is: "accept" (in its select!) or "returned"
    stop,            \* the oneshot channel of the stop signal: "armed" or "fired"
    backlog,         \* connections established by clients, not yet accepted
    spawned,         \* number of serve tasks the accept loop has spawned
    connects,        \* number of connections clients have opened
    \* The thread pool (thread_pool/shared_queue.rs):
    threads,         \* the argument of SharedQueueThreadPool::new
    tx,              \* SharedQueueThreadPool.tx: "alive", or "dropped" with the pool
    channel,         \* the jobs sent and not yet received, oldest first
    workers,         \* per worker thread: where it is, and the job it runs
    jobs,            \* per job: where it is, whether it panics, how many times
                     \* it was called and (history) how many jobs had panicked
                     \* when it was passed to spawn
    \* The calls of the client on its pooled connections (client/client.rs):
    wire,            \* per connection: the request frames written and not yet
                     \* read by its serve, and the response frames written by
                     \* its serve and not yet read by the client
    call,            \* per task: the handle of its call (the rank of its
                     \* Pool::get), the request it wrote and the request that
                     \* the response it read answers, 0 for none
    calls,           \* number of request frames written by the calls
    \* The predecessor engine (store/kv_store.rs):
    kv_dir,          \* its directory: file name -> bytes
    store,           \* the KvStore: the result of open, key_dir, the file ids
                     \* of readers, and active_file_id
    kv_ops,          \* number of calls of set, remove, merge and open
    kv_latest,       \* history: per key, the last set or remove that returned Ok
    kv_merged        \* history: "merged" from a merge that returned Ok until
                     \* the next set or remove, "reopened" once the store was
                     \* dropped and reopened in between, "no" otherwise

storage == <<files, orphans, opened, key_dir, active_file_id, lock, readers,
             pc, local, result, ops, mode, latest, appended, before, expect>>

pool == <<slots, semaphore, pool_alive, task_pc, object, connection, broken,
          acquires, ticket, handed>>

server == <<stream, eof, serve_pc, request, written, decoded, sent>>

listener == <<listen_pc, stop, backlog, spawned, connects>>

\* What the storage engine, the client pool and a serve task leave alone.
thread_pool == <<threads, tx, channel, workers, jobs>>

\* The calls of the client (client/client.rs).
client == <<wire, call, calls>>

\* The predecessor engine (store/kv_store.rs).
predecessor == <<kv_dir, store, kv_ops, kv_latest, kv_merged>>

further == <<client, predecessor>>

elsewhere == <<listener, thread_pool, further>>

net == <<pool, server, elsewhere>>

vars == <<storage, pool, server, elsewhere>>

hist == <<latest, appended, before, expect>>

NoEntry == Entry(0, 0, 0, 0)

NoLocal ==
    [key |-> <<>>, value |-> <<>>, entry |-> NoEntry, compaction_file_id |-> 0,
     cursor |-> [started |-> FALSE, key |-> <<>>], hint_writer |-> <<>>]

NoResult == [op |-> "none", key |-> <<>>, tag |-> "none", val |-> <<>>, keys |-> <<>>]

\* The result of a call: Ok / Some / None / KeyNotFound / Io / Utf8 / ..., with
\* the value of a get.
Returned(op, key, tag, val) ==
    [op |-> op, key |-> key, tag |-> tag, val |-> val, keys |-> <<>>]

\* Option<String> as returned by get.
None == [tag |-> "None", val |-> <<>>]
Some(value) == [tag |-> "Some", val |-> value]

\* Nothing recorded.
Unset == [tag |-> "Unset", val |-> <<>>]

\* Recorded for a running remove(k) that has appended its tombstone and not yet
\* inserted its entry: a set on k has appended and returned meanwhile.
Overtaken == [tag |-> "Overtaken", val |-> <<>>]

\* The bytes a reader of log file file_id sees: the file of that name, or the
\* deleted file a cached reader still holds open.
Content(file_id) ==
    IF log_path(file_id) \in DOMAIN files THEN files[log_path(file_id)]
    ELSE orphans[file_id]

\* Reader::read_value of clone t: a cached reader is used if there is one;
\* otherwise the file is opened, and cached once the read has succeeded.
ReaderRead(t, entry) ==
    IF entry.file_id \in readers[t]
    THEN [res |-> read_value(Content(entry.file_id), entry), readers |-> readers[t]]
    ELSE IF log_path(entry.file_id) \notin DOMAIN files
         THEN [res |-> [tag |-> "Io", val |-> <<>>], readers |-> readers[t]]
    ELSE LET r == read_value(files[log_path(entry.file_id)], entry)
         IN [res |-> r,
             readers |-> IF r.tag = "Ok" THEN readers[t] \cup {entry.file_id}
                         ELSE readers[t]]

\* Pool::new: no connection yet, max_size permits.
PoolNew ==
    /\ slots = <<>>
    /\ semaphore = [permits |-> MaxSize, waiters |-> <<>>]
    /\ pool_alive = TRUE
    /\ task_pc = [t \in Tasks |-> "idle"]
    /\ object = [t \in Tasks |-> 0]
    /\ connection = [c \in Connections |-> "none"]
    /\ broken = {}
    /\ acquires = 0
    /\ ticket = [t \in Tasks |-> 0]
    /\ handed = 0

(***************************************************************************)
(* The predecessor engine KvStore (store/kv_store.rs).  Its record and     *)
(* hint formats are those of the Bitcask engine (write_value,              *)
(* read_next_entry, read_value, write_hint and read_next_hint are the      *)
(* same functions).  A file whose stem is not a number is named by its     *)
(* whole file name, with NoFile for id.                                    *)
(***************************************************************************)
MERGE_FILE == [id |-> NoFile, ext |-> "merge.log"]
HINT_FILE == [id |-> NoFile, ext |-> "hint.log"]
MERGE_FILE_ID == 0

\* format!("{}.tmp", MERGE_FILE) and format!("{}.tmp", HINT_FILE)
temp_merge_file == [id |-> NoFile, ext |-> "merge.log.tmp"]
temp_hint_file == [id |-> NoFile, ext |-> "hint.log.tmp"]

\* The file a reader of file_id reads.
ReaderPath(file_id) ==
    IF file_id = MERGE_FILE_ID THEN MERGE_FILE ELSE log_path(file_id)

\* The directory without the files names.
RemoveFiles(d, names) == [n \in DOMAIN d \ names |-> d[n]]

\* fs::rename(from, to)
Rename(d, from, to) == RemoveFiles(Put(d, to, d[from]), {from})

\* KvStore::open on the directory d: the ids of the <number>.log files in
\* ascending order, the last one (1 without any) for the active file; the
\* hint file is loaded if it exists, with a reader of the merge file, and
\* then every log file.
KvStore_open(d) ==
    LET ids == {n.id : n \in {m \in DOMAIN d : m.ext = "log"}}
        file_ids == IF ids = {} THEN <<1>> ELSE SortedSeq(ids)
        active == file_ids[Len(file_ids)]
        dir == Create(d, log_path(active))
        failed(tag) == [tag |-> tag, key_dir |-> <<>>, readers |-> {},
                        active_file_id |-> active, dir |-> dir]
        hinted == IF HINT_FILE \in DOMAIN dir
                  THEN LoadHint(dir[HINT_FILE], 0, MERGE_FILE_ID, <<>>)
                  ELSE [tag |-> "Ok", key_dir |-> <<>>]
    IN IF hinted.tag # "Ok" THEN failed(hinted.tag)
       ELSE IF HINT_FILE \in DOMAIN dir /\ MERGE_FILE \notin DOMAIN dir THEN failed("Io")
       ELSE Apply(LAMBDA r :
                    IF r.tag # "Ok" THEN failed(r.tag)
                    ELSE [tag |-> "Ok", key_dir |-> r.key_dir,
                          readers |-> {file_ids[i] : i \in DOMAIN file_ids}
                                         \cup (IF HINT_FILE \in DOMAIN dir
                                               THEN {MERGE_FILE_ID} ELSE {}),
                          active_file_id |-> active, dir |-> dir],
                  LoadLogs(dir, file_ids, 1, hinted.key_dir))

\* The KvStore that open returned.
Instance(o) ==
    [opened |-> o.tag, key_dir |-> o.key_dir, readers |-> o.readers,
     active_file_id |-> o.active_file_id]

\* KvStore::open on an empty directory.
KvOpened ==
    \E o \in {KvStore_open(<<>>)} :
       /\ kv_dir = o.dir
       /\ store = Instance(o)
       /\ kv_ops = 0
       /\ kv_latest = [k \in Keys |-> Unset]
       /\ kv_merged = "no"

NoCall == [ticket |-> 0, request |-> 0, response |-> 0]

\* Client::connect: the pool, no connection and no call yet.
ClientConnect ==
    /\ wire = [c \in Connections |-> [requests |-> <<>>, responses |-> <<>>]]
    /\ call = [t \in Tasks |-> NoCall]
    /\ calls = 0

NoRequest == [variant |-> "none", id |-> 0]

\* The accept loop has accepted the first connection and spawned its serve,
\* which has split the stream and is about to read.
Accepted ==
    /\ stream = <<>>
    /\ eof = FALSE
    /\ serve_pc = "read"
    /\ request = NoRequest
    /\ written = <<>>
    /\ decoded = <<>>
    /\ sent = 0
    /\ listen_pc = "accept"
    /\ stop = "armed"
    /\ backlog = 0
    /\ spawned = 1
    /\ connects = 1

\* A worker slot without a thread, and a job not yet passed to spawn.
NoWorker == [pc |-> "none", job |-> 0]
NoJob == [pc |-> "unspawned", panics |-> FALSE, calls |-> 0, after |-> 0]

\* SharedQueueThreadPool::new(n): an empty unbounded channel and n threads,
\* each with a clone of the receiver, about to call recv; the receiver that
\* new created is dropped when new returns.
SharedQueueThreadPool(n) ==
    /\ threads = n
    /\ tx = "alive"
    /\ channel = <<>>
    /\ workers = [w \in Workers |-> IF w <= n THEN [pc |-> "recv", job |-> 0]
                                    ELSE NoWorker]
    /\ jobs = [j \in Jobs |-> NoJob]

\* run has bound the listener and opened the storage; listen enters its
\* select! with no connection yet.
Bound ==
    /\ stream = <<>>
    /\ eof = FALSE
    /\ serve_pc = "none"
    /\ request = NoRequest
    /\ written = <<>>
    /\ decoded = <<>>
    /\ sent = 0
    /\ listen_pc = "accept"
    /\ stop = "armed"
    /\ backlog = 0
    /\ spawned = 0
    /\ connects = 0

\* The engine just opened on the directory d.
OpenedOn(d) ==
    \E o \in {Open(d)} :
       /\ files = o.dir
       /\ orphans = <<>>
       /\ opened = o.tag
       /\ key_dir = o.key_dir
       /\ active_file_id = o.active_file_id
       /\ lock = 0
       /\ readers = [t \in Clones |-> IF t = 1 THEN o.readers ELSE {}]
       /\ pc = [t \in Clones |-> "idle"]
       /\ local = [t \in Clones |-> NoLocal]
       /\ result = [t \in Clones |-> NoResult]
       /\ ops = 0
       /\ latest = [k \in Keys |-> Unset]
       /\ appended = <<>>
       /\ before = [t \in Clones |-> Unset]
       /\ expect = [t \in Clones |-> Unset]
       /\ PoolNew
       /\ ClientConnect
       /\ KvOpened

\* The engine just opened on an empty directory.
Opened == OpenedOn(<<>>)

\* The clones are used from concurrent threads.
Init ==
    Opened /\ Accepted /\ SharedQueueThreadPool(MaxThreads) /\ mode = "threads"

\* The clones are used by one thread, one call at a time.
SeqInit ==
    Opened /\ Accepted /\ SharedQueueThreadPool(MaxThreads) /\ mode = "sequence"

\* The same, and a byte of a log file may change while the directory is closed.
DamageInit ==
    Opened /\ Accepted /\ SharedQueueThreadPool(MaxThreads) /\ mode = "damage"

\* No other clone is inside a call.
Alone(t) == \A u \in Clones \ {t} : pc[u] = "idle"

\* Clone t can start a call.
Idle(t) ==
    /\ pc[t] = "idle"
    /\ opened = "Ok"
    /\ mode # "threads" => Alone(t)

\* The calls that write are counted, to bound the run.
Budget ==
    IF mode = "sequence" THEN MaxSeqOps
    ELSE IF mode = "damage" THEN MaxDamageOps
    ELSE MaxOps

\* Bitcask::get as one step: what clone t gets for key in the current state.
Get(t, key) ==
    IF key \in DOMAIN key_dir /\ key_dir[key].value_len # 0
    THEN LET r == ReaderRead(t, key_dir[key]).res
         IN IF r.tag = "Ok" THEN Some(r.val) ELSE [tag |-> r.tag, val |-> <<>>]
    ELSE None

\* get and list_keys on the engine that open returns for the directory as it
\* is now (all readers are opened anew).
Recovered == Open(files)

RecoveredGet(o, key) ==
    IF o.tag # "Ok" THEN [tag |-> o.tag, val |-> <<>>]
    ELSE IF key \in DOMAIN o.key_dir /\ o.key_dir[key].value_len # 0
    THEN IF log_path(o.key_dir[key].file_id) \notin DOMAIN o.dir
         THEN [tag |-> "Io", val |-> <<>>]
         ELSE LET r == read_value(o.dir[log_path(o.key_dir[key].file_id)], o.key_dir[key])
              IN IF r.tag = "Ok" THEN Some(r.val) ELSE [tag |-> r.tag, val |-> <<>>]
    ELSE None

\* A set or remove of key by another clone is between its append and its return.
Writing(t, key) ==
    \E u \in Clones \ {t} :
        /\ pc[u] \in {"set_insert", "remove_write", "remove_insert"}
        /\ local[u].key = key

(***************************************************************************)
(* Bitcask::get                                                            *)
(***************************************************************************)
\* key_dir.get(&key): None if the key is absent or its entry has value_len 0.
GetLookup(t, key) ==
    /\ Idle(t)
    /\ IF key \in DOMAIN key_dir /\ key_dir[key].value_len # 0
       THEN /\ pc' = [pc EXCEPT ![t] = "get_read"]
            /\ local' = [local EXCEPT ![t] = [NoLocal EXCEPT !.key = key,
                                                             !.entry = key_dir[key]]]
            /\ UNCHANGED result
       ELSE /\ pc' = [pc EXCEPT ![t] = "done"]
            /\ result' = [result EXCEPT ![t] = Returned("get", key, "None", <<>>)]
            /\ UNCHANGED local
    /\ expect' = [expect EXCEPT ![t] =
           IF latest[key].tag = "Set" /\ ~Writing(t, key)
           THEN Some(latest[key].val) ELSE Unset]
    /\ UNCHANGED <<files, orphans, opened, mode, key_dir, active_file_id, lock, readers, ops>>
    /\ UNCHANGED <<latest, appended, before>>
    /\ UNCHANGED net

\* self.reader.read_value(entry) with the entry found by the lookup.
GetRead(t) ==
    /\ pc[t] = "get_read"
    /\ \E r \in {ReaderRead(t, local[t].entry)} :
          /\ readers' = [readers EXCEPT ![t] = r.readers]
          /\ result' = [result EXCEPT ![t] =
                 IF r.res.tag = "Ok"
                 THEN Returned("get", local[t].key, "Some", r.res.val)
                 ELSE Returned("get", local[t].key, r.res.tag, <<>>)]
    /\ pc' = [pc EXCEPT ![t] = "done"]
    /\ local' = [local EXCEPT ![t] = NoLocal]
    /\ UNCHANGED <<files, orphans, opened, mode, key_dir, active_file_id, lock, ops>>
    /\ UNCHANGED hist
    /\ UNCHANGED net

(***************************************************************************)
(* Bitcask::set                                                            *)
(***************************************************************************)
\* The size test of set on the entry just written.
OverThreshold(entry) == entry.value_pos + entry.value_len > LOG_SIZE_THRESHOLD

\* writer.lock(), writer.write_value(&key, &value) and the rotation of the
\* active file; the mutex stays held.
SetWrite(t, key, value) ==
    /\ Idle(t)
    /\ lock = 0
    /\ ops < Budget
    /\ \E timestamp \in Timestamps :
         \E w \in {write_value(files[log_path(active_file_id)], active_file_id,
                               key, value, timestamp)} :
            /\ IF OverThreshold(w.entry)
               THEN /\ files' = Create(Put(files, log_path(active_file_id), w.bytes),
                                       log_path(active_file_id + 1))
                    /\ active_file_id' = active_file_id + 1
               ELSE /\ files' = Put(files, log_path(active_file_id), w.bytes)
                    /\ UNCHANGED active_file_id
            /\ local' = [local EXCEPT ![t] = [NoLocal EXCEPT !.key = key,
                                                             !.value = value,
                                                             !.entry = w.entry]]
            /\ appended' = Insert(appended, key, w.entry)
    /\ lock' = t
    /\ pc' = [pc EXCEPT ![t] = "set_insert"]
    /\ ops' = ops + 1
    /\ expect' = [u \in Clones |->
                     IF pc[u] = "get_read" /\ local[u].key = key THEN Unset ELSE expect[u]]
    /\ UNCHANGED <<orphans, opened, mode, key_dir, readers, result>>
    /\ UNCHANGED <<latest, before>>
    /\ UNCHANGED net

\* self.key_dir.insert(key, entry); the guard on the writer is dropped on return.
SetInsert(t) ==
    /\ pc[t] = "set_insert"
    /\ key_dir' = Insert(key_dir, local[t].key, local[t].entry)
    /\ lock' = 0
    /\ pc' = [pc EXCEPT ![t] = "done"]
    /\ result' = [result EXCEPT ![t] = Returned("set", local[t].key, "Ok", <<>>)]
    /\ local' = [local EXCEPT ![t] = NoLocal]
    /\ latest' = [latest EXCEPT ![local[t].key] = [tag |-> "Set", val |-> local[t].value]]
    /\ expect' = [u \in Clones |->
                     IF /\ u # t
                        /\ pc[u] = "remove_insert"
                        /\ local[u].key = local[t].key
                     THEN Overtaken ELSE expect[u]]
    /\ UNCHANGED <<files, orphans, opened, mode, active_file_id, readers, ops>>
    /\ UNCHANGED <<appended, before>>
    /\ UNCHANGED net

(***************************************************************************)
(* Bitcask::remove                                                         *)
(***************************************************************************)
\* The test of remove: self.key_dir.get(&key).is_none()
RemoveKeyNotFound(key) == key \notin DOMAIN key_dir

\* Mutant of RemoveCheck: the tombstone is appended before the key is looked
\* up, so a remove that returns KeyNotFound has written to the active file.
RemoveCheckAppends(t, key) ==
    /\ Idle(t)
    /\ lock = 0
    /\ ops < Budget
    /\ ops' = ops + 1
    /\ \E timestamp \in Timestamps :
          files' = Put(files, log_path(active_file_id),
                       write_value(files[log_path(active_file_id)], active_file_id,
                                   key, TOMBSTONE, timestamp).bytes)
    /\ IF RemoveKeyNotFound(key)
       THEN /\ pc' = [pc EXCEPT ![t] = "done"]
            /\ result' = [result EXCEPT ![t] =
                              Returned("remove", key, "KeyNotFound", <<>>)]
            /\ UNCHANGED local
       ELSE /\ pc' = [pc EXCEPT ![t] = "remove_write"]
            /\ local' = [local EXCEPT ![t] = [NoLocal EXCEPT !.key = key]]
            /\ UNCHANGED result
    /\ UNCHANGED <<orphans, opened, mode, key_dir, active_file_id, lock, readers>>
    /\ UNCHANGED hist
    /\ UNCHANGED net

RemoveCheck(t, key) ==
    /\ Idle(t)
    /\ ops < Budget
    /\ ops' = ops + 1
    /\ IF RemoveKeyNotFound(key)
       THEN /\ pc' = [pc EXCEPT ![t] = "done"]
            /\ result' = [result EXCEPT ![t] =
                              Returned("remove", key, "KeyNotFound", <<>>)]
            /\ UNCHANGED local
       ELSE /\ pc' = [pc EXCEPT ![t] = "remove_write"]
            /\ local' = [local EXCEPT ![t] = [NoLocal EXCEPT !.key = key]]
            /\ UNCHANGED result
    /\ UNCHANGED <<files, orphans, opened, mode, key_dir, active_file_id, lock, readers>>
    /\ UNCHANGED hist
    /\ UNCHANGED net

\* self.writer.lock().unwrap().write_value(&key, &TOMBSTONE)?: the guard is a
\* temporary of this statement, so the mutex is released when it ends.
RemoveWrite(t) ==
    /\ pc[t] = "remove_write"
    /\ lock = 0
    /\ \E timestamp \in Timestamps :
         \E w \in {write_value(files[log_path(active_file_id)], active_file_id,
                               local[t].key, TOMBSTONE, timestamp)} :
            /\ files' = Put(files, log_path(active_file_id), w.bytes)
            /\ local' = [local EXCEPT ![t].entry = w.entry]
            /\ appended' = Insert(appended, local[t].key, w.entry)
    /\ pc' = [pc EXCEPT ![t] = "remove_insert"]
    /\ expect' = [u \in Clones |->
                     IF pc[u] = "get_read" /\ local[u].key = local[t].key
                     THEN Unset ELSE expect[u]]
    /\ UNCHANGED <<orphans, opened, mode, key_dir, active_file_id, lock, readers, result, ops>>
    /\ UNCHANGED <<latest, before>>
    /\ UNCHANGED net

\* self.key_dir.insert(key, entry), outside the mutex.
RemoveInsert(t) ==
    /\ pc[t] = "remove_insert"
    /\ key_dir' = Insert(key_dir, local[t].key, local[t].entry)
    /\ pc' = [pc EXCEPT ![t] = "done"]
    /\ result' = [result EXCEPT ![t] = Returned("remove", local[t].key, "Ok", <<>>)]
    /\ local' = [local EXCEPT ![t] = NoLocal]
    /\ latest' = [latest EXCEPT ![local[t].key] =
                     IF expect[t] = Overtaken THEN [tag |-> "Raced", val |-> <<>>]
                     ELSE [tag |-> "Removed", val |-> <<>>]]
    /\ UNCHANGED <<files, orphans, opened, mode, active_file_id, lock, readers, ops>>
    /\ UNCHANGED <<appended, before, expect>>
    /\ UNCHANGED net

(***************************************************************************)
(* Bitcask::list_keys, and the order of the key directory (a SkipMap)      *)
(***************************************************************************)
\* Ord for String: byte-wise lexicographic order, the order of the SkipMap.
RECURSIVE KeyLess(_, _)
KeyLess(a, b) ==
    IF a = <<>> THEN b # <<>>
    ELSE IF b = <<>> THEN FALSE
    ELSE IF a[1] # b[1] THEN a[1] < b[1]
    ELSE KeyLess(Tail(a), Tail(b))

FirstKey(S) == CHOOSE k \in S : \A j \in S : j = k \/ KeyLess(k, j)

\* The elements of S in key order.
RECURSIVE KeySeq(_)
KeySeq(S) ==
    IF S = {} THEN <<>>
    ELSE LET k == FirstKey(S) IN <<k>> \o KeySeq(S \ {k})

\* Bitcask::list_keys: the keys, in the order of the map, whose entry has a
\* value_len other than 0.
list_keys(kd) == KeySeq({k \in DOMAIN kd : kd[k].value_len # 0})

\* The sum of the sizes of the files of the directory d, as the dir_size of the
\* compaction test computes it.
RECURSIVE SizeOf(_, _)
SizeOf(d, names) ==
    IF names = {} THEN 0
    ELSE Apply(LAMBDA n : Len(d[n]) + SizeOf(d, names \ {n}), CHOOSE n \in names : TRUE)

DirSize(d) == SizeOf(d, DOMAIN d)

\* The number of records of key in a log file from pos on: all of them, or
\* those with a non-empty value only.
RECURSIVE Records(_, _, _, _)
Records(bytes, pos, key, all) ==
    Apply(LAMBDA r :
            IF r.tag # "Entry" THEN 0
            ELSE (IF r.key = key /\ (all \/ r.entry.value_len # 0) THEN 1 ELSE 0)
                 + Records(bytes, r.next, key, all),
          read_next_entry(bytes, pos, 0))

RECURSIVE RecordsIn(_, _, _, _)
RecordsIn(d, names, key, all) ==
    IF names = {} THEN 0
    ELSE Apply(LAMBDA n : (IF n.ext = "log" THEN Records(d[n], 0, key, all) ELSE 0)
                          + RecordsIn(d, names \ {n}, key, all),
               CHOOSE n \in names : TRUE)

\* Every key written to the directory d has been overwritten at least once:
\* the log files hold two or more records with a value for it.
Overwritten(d) ==
    /\ \E k \in Keys : RecordsIn(d, DOMAIN d, k, TRUE) > 0
    /\ \A k \in Keys : RecordsIn(d, DOMAIN d, k, TRUE) > 0
                           => RecordsIn(d, DOMAIN d, k, FALSE) >= 2

\* What get, on every clone and for every key, and list_keys return in the
\* current state.
Seen ==
    [tag |-> "Seen",
     get |-> [u \in Clones |-> [k \in Keys |-> Get(u, k)]],
     keys |-> list_keys(key_dir),
     size |-> DirSize(files),
     overwritten |-> Overwritten(files)]

\* A call of list_keys by clone t, as one step.
ListKeys(t) ==
    /\ Idle(t)
    /\ pc' = [pc EXCEPT ![t] = "done"]
    /\ result' = [result EXCEPT ![t] =
           [Returned("list_keys", <<>>, "Ok", <<>>) EXCEPT !.keys = list_keys(key_dir)]]
    /\ UNCHANGED <<files, orphans, opened, mode, key_dir, active_file_id, lock, readers,
                   local, ops>>
    /\ UNCHANGED hist
    /\ UNCHANGED net

(***************************************************************************)
(* Bitcask::compact                                                        *)
(***************************************************************************)
\* The keys self.key_dir.iter() has still to yield: the iterator walks the live
\* map in key order, so it sees the entries as they are when it reaches them.
KeysAfter(cursor) ==
    {k \in DOMAIN key_dir : ~cursor.started \/ KeyLess(cursor.key, k)}

\* writer.lock()?, the id of the merge and hint files, and their creation.
CompactBegin(t) ==
    /\ Idle(t)
    /\ lock = 0
    /\ ops < Budget
    /\ ops' = ops + 1
    /\ lock' = t
    /\ LET compaction_file_id == active_file_id + 1
       IN /\ files' = Create(Create(files, log_path(compaction_file_id)),
                             hint_path(compaction_file_id))
          /\ local' = [local EXCEPT ![t] =
                           [NoLocal EXCEPT !.compaction_file_id = compaction_file_id]]
    /\ pc' = [pc EXCEPT ![t] = "compact_iter"]
    /\ before' = [before EXCEPT ![t] = Seen]
    /\ UNCHANGED <<orphans, opened, mode, key_dir, active_file_id, readers, result>>
    /\ UNCHANGED <<latest, appended, expect>>
    /\ UNCHANGED net

\* One turn of the loop up to the insert: the next item of the iterator; a
\* tombstone is skipped; otherwise the value is read, appended to the merge file
\* and described in the (buffered) hint writer.  A failed read returns the
\* error: the guard is dropped and the hint writer is flushed by its drop.
CompactItem(t) ==
    /\ pc[t] = "compact_iter"
    /\ KeysAfter(local[t].cursor) # {}
    /\ \E key \in {FirstKey(KeysAfter(local[t].cursor))} :
       \E r \in {ReaderRead(t, key_dir[key])} :
       LET entry == key_dir[key]
           c == local[t].compaction_file_id
       IN IF entry.value_len = 0
          THEN /\ local' = [local EXCEPT ![t].cursor = [started |-> TRUE, key |-> key]]
               /\ UNCHANGED <<files, readers, lock, pc, result, appended>>
          ELSE IF r.res.tag # "Ok"
          THEN /\ files' = Put(files, hint_path(c),
                               files[hint_path(c)] \o local[t].hint_writer)
               /\ readers' = [readers EXCEPT ![t] = r.readers]
               /\ lock' = 0
               /\ pc' = [pc EXCEPT ![t] = "done"]
               /\ result' = [result EXCEPT ![t] =
                                 Returned("compact", <<>>, r.res.tag, <<>>)]
               /\ local' = [local EXCEPT ![t] = NoLocal]
               /\ UNCHANGED appended
          ELSE \E timestamp \in Timestamps :
                 \E w \in {write_value(files[log_path(c)], c, key, r.res.val, timestamp)} :
                    /\ files' = Put(files, log_path(c), w.bytes)
                    /\ readers' = [readers EXCEPT ![t] = r.readers]
                    /\ local' = [local EXCEPT
                           ![t].cursor = [started |-> TRUE, key |-> key],
                           ![t].key = key,
                           ![t].entry = w.entry,
                           ![t].hint_writer = write_hint(local[t].hint_writer, key, w.entry)]
                    /\ appended' = Insert(appended, key, w.entry)
                    /\ pc' = [pc EXCEPT ![t] = "compact_insert"]
                    /\ UNCHANGED <<lock, result>>
    /\ UNCHANGED <<orphans, opened, mode, key_dir, active_file_id, ops>>
    /\ UNCHANGED <<latest, before, expect>>
    /\ UNCHANGED net

\* self.key_dir.insert(key.clone(), merge_entry)
CompactInsert(t) ==
    /\ pc[t] = "compact_insert"
    /\ key_dir' = Insert(key_dir, local[t].key, local[t].entry)
    /\ pc' = [pc EXCEPT ![t] = "compact_iter"]
    /\ UNCHANGED <<files, orphans, opened, mode, active_file_id, lock, readers, local,
                   result, ops>>
    /\ UNCHANGED hist
    /\ UNCHANGED net

\* After the loop: both writers are flushed, the writer is set to the log file
\* after the merge file and the mutex is released.
CompactFinish(t) ==
    /\ pc[t] = "compact_iter"
    /\ KeysAfter(local[t].cursor) = {}
    /\ LET c == local[t].compaction_file_id
           flushed == Put(files, hint_path(c), files[hint_path(c)] \o local[t].hint_writer)
       IN files' = Create(flushed, log_path(c + 1))
    /\ active_file_id' = local[t].compaction_file_id + 1
    /\ lock' = 0
    /\ local' = [local EXCEPT ![t].hint_writer = <<>>]
    /\ pc' = [pc EXCEPT ![t] = "compact_delete"]
    /\ UNCHANGED <<orphans, opened, mode, key_dir, readers, result, ops>>
    /\ UNCHANGED hist
    /\ UNCHANGED net

\* Mutant of Obsolete: the comparison is off by one, so that compact removes its
\* own merge and hint file as well.
ObsoleteInclusive(name, compaction_file_id) == name.id <= compaction_file_id

\* A removal that takes the old log files and leaves the old hint files.
ObsoleteLogs(name, compaction_file_id) ==
    name.id < compaction_file_id /\ name.ext = "log"

\* The names compact removes: every file whose stem parses as an id below the
\* compaction file id.
Obsolete(name, compaction_file_id) == name.id < compaction_file_id

\* The removal of the old files, with this clone's readers of them; a clone
\* that still holds a reader of a removed log file keeps the file open.
CompactDelete(t) ==
    /\ pc[t] = "compact_delete"
    /\ LET c == local[t].compaction_file_id
           gone == {n \in DOMAIN files : Obsolete(n, c)}
           gone_ids == {n.id : n \in gone}
           held == {n.id : n \in {m \in gone : m.ext = "log"
                        /\ \E u \in Clones \ {t} : m.id \in readers[u]}}
       IN /\ files' = [n \in DOMAIN files \ gone |-> files[n]]
          /\ orphans' = [f \in DOMAIN orphans \cup held |->
                            IF f \in held THEN files[log_path(f)] ELSE orphans[f]]
          /\ readers' = [readers EXCEPT ![t] = readers[t] \ gone_ids]
    /\ pc' = [pc EXCEPT ![t] = "done"]
    /\ result' = [result EXCEPT ![t] = Returned("compact", <<>>, "Ok", <<>>)]
    /\ local' = [local EXCEPT ![t] = NoLocal]
    /\ UNCHANGED <<opened, mode, key_dir, active_file_id, lock, ops>>
    /\ UNCHANGED hist
    /\ UNCHANGED net

(***************************************************************************)
(* The caller, and closing and reopening the directory.                    *)
(***************************************************************************)
\* The caller takes the result of the call; the thread is free for the next.
Return(t) ==
    /\ pc[t] = "done"
    /\ pc' = [pc EXCEPT ![t] = "idle"]
    /\ result' = [result EXCEPT ![t] = NoResult]
    /\ before' = [before EXCEPT ![t] = Unset]
    /\ expect' = [expect EXCEPT ![t] = Unset]
    /\ UNCHANGED <<files, orphans, opened, mode, key_dir, active_file_id, lock, readers,
                   local, ops>>
    /\ UNCHANGED <<latest, appended>>
    /\ UNCHANGED net

\* A damaged byte: its lowest bit is flipped.
Flip(b) == IF b % 2 = 0 THEN b + 1 ELSE b - 1

\* The bytes that may be damaged in a file: the checksum, the low bytes of the
\* timestamp, of key_len and of value_len of the first record, and the last
\* byte of the file.
DamagePositions(bytes) == {1, 2, 10, 14, 18, Len(bytes)}

\* The directory d with one byte of one log file damaged.
Damaged(d) ==
    {Put(d, n, [d[n] EXCEPT ![i] = Flip(d[n][i])]) :
        n \in {m \in DOMAIN d : m.ext = "log" /\ d[m] # <<>>},
        i \in UNION {DamagePositions(d[m]) : m \in {x \in DOMAIN d : d[x] # <<>>}}}

\* The directories open may find when the engine is closed: the files as the
\* engine left them, or (in the runs with damage) with a byte of a log file
\* changed.
DirsAtOpen ==
    IF mode = "damage" /\ ops < Budget THEN {files} \cup Damaged(files) ELSE {files}

\* All clones are dropped (no call is running) and Bitcask::open is called on
\* the same directory; clone 1 is the handle it returns, the others are new
\* clones of it, whose reader caches start empty.
Reopen ==
    /\ \A t \in Clones : Idle(t)
    /\ \E d \in DirsAtOpen :
       \E o \in {Open(d)} :
          /\ opened' = o.tag
          /\ result' = [result EXCEPT ![1] = Returned("open", <<>>, o.tag, <<>>)]
          /\ ops' = IF d = files THEN ops ELSE ops + 1
          /\ files' = o.dir
          /\ IF o.tag = "Ok"
             THEN /\ key_dir' = o.key_dir
                  /\ active_file_id' = o.active_file_id
                  /\ readers' = [t \in Clones |-> IF t = 1 THEN o.readers ELSE {}]
                  /\ appended' = o.key_dir
             ELSE UNCHANGED <<key_dir, active_file_id, readers, appended>>
    /\ pc' = [pc EXCEPT ![1] = "done"]
    /\ before' = [before EXCEPT ![1] = Seen]
    /\ orphans' = <<>>
    /\ lock' = 0
    /\ UNCHANGED <<local, mode>>
    /\ UNCHANGED <<latest, expect>>
    /\ UNCHANGED net

Step(t) ==
    \/ \E key \in Keys : GetLookup(t, key)
    \/ GetRead(t)
    \/ \E key \in Keys, value \in Values : SetWrite(t, key, value)
    \/ SetInsert(t)
    \/ \E key \in Keys : RemoveCheck(t, key)
    \/ RemoveWrite(t)
    \/ RemoveInsert(t)
    \/ ListKeys(t)
    \/ CompactBegin(t)
    \/ CompactItem(t)
    \/ CompactInsert(t)
    \/ CompactFinish(t)
    \/ CompactDelete(t)
    \/ Return(t)

Next == (\E t \in Clones : Step(t)) \/ Reopen

\* Concurrent use of the clones.
Spec == Init /\ [][Next]_vars

\* Sequential use of the clones.
SeqSpec == SeqInit /\ [][Next]_vars

\* Sequential use of the clones, with damage to the closed directory.
DamageSpec == DamageInit /\ [][Next]_vars

\* The clone that is inside compact, if any.
Compacting == {t \in Clones : pc[t] \in {"compact_iter", "compact_insert", "compact_delete"}}

\* The process stops while a clone is inside compact, and Bitcask::open is
\* called on the directory as the process left it: what the hint writer of
\* the compaction had buffered is lost with the process.  Clone 1 is the
\* handle open returns; it carries what the compaction saw when it began.
Kill ==
    /\ mode = "crash"
    /\ \E t \in Compacting :
       \E o \in {Open(files)} :
          /\ opened' = o.tag
          /\ result' = [u \in Clones |-> IF u = 1 THEN Returned("restart", <<>>, o.tag, <<>>)
                                         ELSE NoResult]
          /\ files' = o.dir
          /\ before' = [u \in Clones |-> IF u = 1 THEN before[t] ELSE Unset]
          /\ IF o.tag = "Ok"
             THEN /\ key_dir' = o.key_dir
                  /\ active_file_id' = o.active_file_id
                  /\ readers' = [u \in Clones |-> IF u = 1 THEN o.readers ELSE {}]
                  /\ appended' = o.key_dir
             ELSE UNCHANGED <<key_dir, active_file_id, readers, appended>>
    /\ pc' = [u \in Clones |-> IF u = 1 THEN "done" ELSE "idle"]
    /\ local' = [u \in Clones |-> NoLocal]
    /\ expect' = [u \in Clones |-> Unset]
    /\ orphans' = <<>>
    /\ lock' = 0
    /\ UNCHANGED <<mode, ops, latest>>
    /\ UNCHANGED net

\* An I/O error inside the loop of compact (the open of a reader, a read, or
\* the write to the merge or hint writer fails): `?` returns it, the guard is
\* dropped and the hint writer is flushed by its drop.
CompactErr(t) ==
    /\ mode = "crash"
    /\ pc[t] = "compact_iter"
    /\ files' = Put(files, hint_path(local[t].compaction_file_id),
                    files[hint_path(local[t].compaction_file_id)] \o local[t].hint_writer)
    /\ lock' = 0
    /\ pc' = [pc EXCEPT ![t] = "done"]
    /\ result' = [result EXCEPT ![t] = Returned("compact", <<>>, "Io", <<>>)]
    /\ local' = [local EXCEPT ![t] = NoLocal]
    /\ UNCHANGED <<orphans, opened, mode, key_dir, active_file_id, readers, ops>>
    /\ UNCHANGED hist
    /\ UNCHANGED net

CrashNext ==
    \/ \E t \in Clones : Step(t)
    \/ Reopen
    \/ Kill
    \/ \E t \in Clones : CompactErr(t)

CrashInit ==
    Opened /\ Accepted /\ SharedQueueThreadPool(MaxThreads) /\ mode = "crash"

\* Sequential use of the clones, with a compact that can be interrupted by
\* the stop of the process or by an I/O error.
CrashSpec == CrashInit /\ [][CrashNext]_vars

\* A file of another program in the directory: 0.bak, with one byte.
ForeignFile == [id |-> 0, ext |-> "bak"]
ForeignDir == Put(<<>>, ForeignFile, <<98>>)

ForeignInit ==
    /\ OpenedOn(ForeignDir) /\ Accepted /\ SharedQueueThreadPool(MaxThreads)
    /\ mode = "foreign"

\* Sequential use of the clones in a directory that holds a foreign file.
ForeignSpec == ForeignInit /\ [][Next]_vars

(***************************************************************************)
(* The client's connection pool (client/pool.rs).  A task is "idle",       *)
(* "waiting" in the queue of the semaphore, "woken" (handed a permit, not  *)
(* yet polled), "permit" (took a permit without waiting), "connecting" in  *)
(* Connection::new, "holding" an Object, or "returning" its connection     *)
(* (between the push_back and the add_permits of return_object).           *)
(***************************************************************************)
\* The sequence without the element x.
Without(seq, x) == SelectSeq(seq, LAMBDA y : y # x)

\* A waiter other than the one that has waited longest.
LastWaiter(waiters) == waiters[Len(waiters)]

\* tokio's Semaphore is fair: a released permit goes to the waiter that has
\* waited longest.
NextWaiter(waiters) == Head(waiters)

\* A release that makes two permits available.
add_two_permits(sem) ==
    IF sem.waiters = <<>>
    THEN [sem EXCEPT !.permits = @ + 2]
    ELSE [sem EXCEPT !.waiters = Without(@, NextWaiter(@))]

\* Semaphore::add_permits(1), also run by the drop of a SemaphorePermit that
\* was not forgotten: the permit is handed to a waiter if there is one, and
\* becomes available otherwise.
add_permits(sem) ==
    IF sem.waiters = <<>>
    THEN [sem EXCEPT !.permits = @ + 1]
    ELSE [sem EXCEPT !.waiters = Without(@, NextWaiter(@))]

\* The tasks after add_permits(1): the waiter handed the permit is woken.
Wake(sem, tpc) ==
    IF sem.waiters = <<>> THEN tpc
    ELSE [tpc EXCEPT ![NextWaiter(sem.waiters)] = "woken"]

\* The connection Connection::new opens next.
Fresh == CHOOSE c \in Connections :
            /\ connection[c] = "none"
            /\ \A b \in Connections : connection[b] = "none" => c <= b

\* self.inner.semaphore.acquire(), first poll: a permit is taken if one is
\* available, otherwise the task joins the queue of waiters.
Acquire(t) ==
    /\ pool_alive
    /\ task_pc[t] = "idle"
    /\ acquires < MaxAcquires
    /\ acquires' = acquires + 1
    /\ ticket' = [ticket EXCEPT ![t] = acquires + 1]
    /\ IF semaphore.permits > 0
       THEN /\ semaphore' = [semaphore EXCEPT !.permits = @ - 1]
            /\ task_pc' = [task_pc EXCEPT ![t] = "permit"]
       ELSE /\ semaphore' = [semaphore EXCEPT !.waiters = Append(@, t)]
            /\ task_pc' = [task_pc EXCEPT ![t] = "waiting"]
    /\ UNCHANGED <<slots, pool_alive, object, connection, broken, handed>>
    /\ UNCHANGED <<storage, server, elsewhere>>

\* A get that opens a connection whatever the queue holds.
PopConnects(t) ==
    /\ task_pc[t] \in {"permit", "woken"}
    /\ object' = [object EXCEPT ![t] = Fresh]
    /\ connection' = [connection EXCEPT ![Fresh] = "connecting"]
    /\ task_pc' = [task_pc EXCEPT ![t] = "connecting"]
    /\ UNCHANGED <<slots, semaphore, pool_alive, broken, acquires, ticket, handed>>
    /\ UNCHANGED <<storage, server, elsewhere>>

\* With the permit: conns.pop_front() under the mutex; Some(conn) gives the
\* Object at once (permit.forget()), None begins Connection::new.
Pop(t) ==
    /\ task_pc[t] \in {"permit", "woken"}
    /\ IF slots # <<>>
       THEN /\ object' = [object EXCEPT ![t] = Head(slots)]
            /\ slots' = Tail(slots)
            /\ task_pc' = [task_pc EXCEPT ![t] = "holding"]
            /\ handed' = handed + 1
            /\ UNCHANGED connection
       ELSE /\ object' = [object EXCEPT ![t] = Fresh]
            /\ connection' = [connection EXCEPT ![Fresh] = "connecting"]
            /\ task_pc' = [task_pc EXCEPT ![t] = "connecting"]
            /\ UNCHANGED <<slots, handed>>
    /\ UNCHANGED <<semaphore, pool_alive, broken, acquires, ticket>>
    /\ UNCHANGED <<storage, server, elsewhere>>

\* Connection::new returned Ok: permit.forget() and the Object.
Connected(t) ==
    /\ task_pc[t] = "connecting"
    /\ connection' = [connection EXCEPT ![object[t]] = "open"]
    /\ task_pc' = [task_pc EXCEPT ![t] = "holding"]
    /\ handed' = handed + 1
    /\ UNCHANGED <<slots, semaphore, pool_alive, object, broken, acquires, ticket>>
    /\ UNCHANGED <<storage, server, elsewhere>>

\* A failed connect that keeps the permit (a permit forgotten before the
\* connection is there).
ConnectFailedForgets(t) ==
    /\ task_pc[t] = "connecting"
    /\ connection' = [connection EXCEPT ![object[t]] = "failed"]
    /\ object' = [object EXCEPT ![t] = 0]
    /\ task_pc' = [task_pc EXCEPT ![t] = "idle"]
    /\ UNCHANGED <<slots, semaphore, pool_alive, broken, acquires, ticket, handed>>
    /\ UNCHANGED <<storage, server, elsewhere>>

\* Connection::new returned Err: get returns it through `?`, which drops the
\* permit.
ConnectFailed(t) ==
    /\ task_pc[t] = "connecting"
    /\ connection' = [connection EXCEPT ![object[t]] = "failed"]
    /\ object' = [object EXCEPT ![t] = 0]
    /\ semaphore' = add_permits(semaphore)
    /\ task_pc' = [Wake(semaphore, task_pc) EXCEPT ![t] = "idle"]
    /\ UNCHANGED <<slots, pool_alive, broken, acquires, ticket, handed>>
    /\ UNCHANGED <<storage, server, elsewhere>>

\* The future of get is dropped at one of its awaits: in the queue of the
\* semaphore, with a permit it was handed but has not seen, or in
\* Connection::new.
Cancel(t) ==
    /\ task_pc[t] \in {"waiting", "woken", "connecting"}
    /\ IF task_pc[t] = "waiting"
       THEN /\ semaphore' = [semaphore EXCEPT !.waiters = Without(@, t)]
            /\ task_pc' = [task_pc EXCEPT ![t] = "idle"]
            /\ UNCHANGED <<connection, object>>
       ELSE /\ semaphore' = add_permits(semaphore)
            /\ task_pc' = [Wake(semaphore, task_pc) EXCEPT ![t] = "idle"]
            /\ IF task_pc[t] = "connecting"
               THEN /\ connection' = [connection EXCEPT ![object[t]] = "failed"]
                    /\ object' = [object EXCEPT ![t] = 0]
               ELSE UNCHANGED <<connection, object>>
    /\ ticket' = [ticket EXCEPT ![t] = 0]
    /\ UNCHANGED <<slots, pool_alive, broken, acquires, handed>>
    /\ UNCHANGED <<storage, server, elsewhere>>

\* A write or a read on the connection of the handle fails (Client::get and
\* the other calls return the error, or panic on the None of an EOF).
Fail(t) ==
    /\ task_pc[t] = "holding"
    /\ object[t] \notin broken
    /\ broken' = broken \cup {object[t]}
    /\ UNCHANGED <<slots, semaphore, pool_alive, task_pc, object, connection,
                   acquires, ticket, handed>>
    /\ UNCHANGED <<storage, server, elsewhere>>

\* A drop that returns the connection whether the pool is alive or not.
DropReturns(t) ==
    /\ task_pc[t] = "holding"
    /\ slots' = Append(slots, object[t])
    /\ task_pc' = [task_pc EXCEPT ![t] = "returning"]
    /\ object' = [object EXCEPT ![t] = 0]
    /\ UNCHANGED <<semaphore, pool_alive, connection, broken, acquires, ticket, handed>>
    /\ UNCHANGED <<storage, server, elsewhere>>

\* Drop for Object: with the pool alive, return_object up to the release of
\* the mutex (slots.push_back(obj)); with the pool gone, the connection is
\* dropped.
Drop(t) ==
    /\ task_pc[t] = "holding"
    /\ IF pool_alive
       THEN /\ slots' = Append(slots, object[t])
            /\ task_pc' = [task_pc EXCEPT ![t] = "returning"]
            /\ UNCHANGED connection
       ELSE /\ connection' = [connection EXCEPT ![object[t]] = "closed"]
            /\ task_pc' = [task_pc EXCEPT ![t] = "idle"]
            /\ UNCHANGED slots
    /\ object' = [object EXCEPT ![t] = 0]
    /\ UNCHANGED <<semaphore, pool_alive, broken, acquires, ticket, handed>>
    /\ UNCHANGED <<storage, server, elsewhere>>

\* The end of return_object: self.semaphore.add_permits(1).
AddPermit(t) ==
    /\ task_pc[t] = "returning"
    /\ semaphore' = add_permits(semaphore)
    /\ task_pc' = [Wake(semaphore, task_pc) EXCEPT ![t] = "idle"]
    /\ UNCHANGED <<slots, pool_alive, object, connection, broken, acquires, ticket, handed>>
    /\ UNCHANGED <<storage, server, elsewhere>>

\* The last clone of the Pool is dropped (no task is inside get, which borrows
\* the pool, or inside return_object, which holds a reference to PoolInner):
\* PoolInner is dropped with its idle connections.
DestroyPool ==
    /\ pool_alive
    /\ \A t \in Tasks : task_pc[t] \in {"idle", "holding"}
    /\ pool_alive' = FALSE
    /\ connection' = [c \in Connections |->
                         IF \E i \in 1..Len(slots) : slots[i] = c
                         THEN "closed" ELSE connection[c]]
    /\ slots' = <<>>
    /\ UNCHANGED <<semaphore, task_pc, object, broken, acquires, ticket, handed>>
    /\ UNCHANGED <<storage, server, elsewhere>>

PoolStep(t) ==
    \/ Acquire(t)
    \/ Pop(t)
    \/ Connected(t)
    \/ ConnectFailed(t)
    \/ Cancel(t)
    \/ Fail(t)
    \/ Drop(t)
    \/ AddPermit(t)

PoolNext == (\E t \in Tasks : PoolStep(t)) \/ DestroyPool

PoolInit ==
    Opened /\ Accepted /\ SharedQueueThreadPool(MaxThreads) /\ mode = "pool"

\* The tasks of a client sharing one pool.
PoolSpec == PoolInit /\ [][PoolNext]_vars

\* The same, with what the claims about waiting assume: the runtime polls a
\* task that was woken or that holds a permit, a connect comes to an end, and
\* a handle that was handed out is dropped, its drop running to the end.
PoolFairSpec ==
    /\ PoolSpec
    /\ \A t \in Tasks :
          /\ WF_vars(Pop(t))
          /\ WF_vars(Connected(t) \/ ConnectFailed(t))
          /\ WF_vars(Drop(t))
          /\ WF_vars(AddPermit(t))

(***************************************************************************)
(* One connection of the server (server/server.rs, net/net.rs).  A frame   *)
(* is a length-delimited bincode value; the model keeps its variant and,   *)
(* for a request, its rank among the frames the client wrote.              *)
(***************************************************************************)
\* net.rs:29-34
RequestVariants == {"Get", "Set", "Remove", "List"}

\* A frame of which the first bytes were consumed and lost.
Torn == [variant |-> "torn", id |-> 0]

\* A response variant that does not depend on the request.
ResponseAlwaysGet(variant) == "GetResponse"

\* The match of serve: the response type written for each request variant.
ResponseVariant(variant) ==
    CASE variant = "Get" -> "GetResponse"
      [] variant = "Set" -> "SetResponse"
      [] variant = "Remove" -> "RemoveResponse"
      [] variant = "List" -> "ListResponse"

\* What the storage call can return: Ok or Err, and Ok only for list_keys.
Outcomes(variant) == IF variant = "List" THEN {"Ok"} ELSE {"Ok", "Err"}

\* The client writes a request frame (it need not wait for the responses to
\* the earlier ones).
ClientSend(variant) ==
    /\ ~eof
    /\ sent < MaxFrames
    /\ sent' = sent + 1
    /\ stream' = Append(stream, [variant |-> variant, id |-> sent + 1])
    /\ UNCHANGED <<eof, serve_pc, request, written, decoded>>
    /\ UNCHANGED <<storage, pool, elsewhere>>

\* The client closes its side of the connection.
ClientClose ==
    /\ ~eof
    /\ eof' = TRUE
    /\ UNCHANGED <<stream, serve_pc, request, written, decoded, sent>>
    /\ UNCHANGED <<storage, pool, elsewhere>>

\* reader.read::<Request>() returns Some(r): a new FramedRead reads the bytes
\* that have arrived, the first n frames and possibly a part of the next one,
\* decodes the first frame and is dropped with the rest of its buffer.
ServeRead ==
    /\ serve_pc = "read"
    /\ stream # <<>>
    /\ Head(stream) # Torn
    /\ \E n \in 1..Len(stream), part \in BOOLEAN :
          /\ part => n < Len(stream)
          /\ stream' = IF part THEN <<Torn>> \o SubSeq(stream, n + 2, Len(stream))
                       ELSE SubSeq(stream, n + 1, Len(stream))
    /\ request' = Head(stream)
    /\ decoded' = Append(decoded, Head(stream))
    /\ serve_pc' = "write"
    /\ UNCHANGED <<eof, written, sent>>
    /\ UNCHANGED <<storage, pool, elsewhere>>

\* reader.read::<Request>() returns None at the end of the stream: serve
\* returns Ok.
ServeEof ==
    /\ serve_pc = "read"
    /\ stream = <<>>
    /\ eof
    /\ serve_pc' = "closed"
    /\ UNCHANGED <<stream, eof, request, written, decoded, sent>>
    /\ UNCHANGED <<storage, pool, elsewhere>>

\* reader.read::<Request>() returns an error (I/O, or the bytes are not a
\* frame that holds a Request): serve returns it.
ServeReadErr ==
    /\ serve_pc = "read"
    /\ serve_pc' = "failed"
    /\ UNCHANGED <<stream, eof, request, written, decoded, sent>>
    /\ UNCHANGED <<storage, pool, elsewhere>>

\* A serve that returns after it has written the response to a request the
\* engine refused.
ServeWriteEnds ==
    /\ serve_pc = "write"
    /\ \E outcome \in Outcomes(request.variant) :
          /\ written' = Append(written, [variant |-> ResponseVariant(request.variant),
                                         id |-> request.id,
                                         outcome |-> outcome])
          /\ serve_pc' = IF outcome = "Err" THEN "failed" ELSE "read"
    /\ request' = NoRequest
    /\ UNCHANGED <<stream, eof, decoded, sent>>
    /\ UNCHANGED <<storage, pool, elsewhere>>

\* The storage call for the request and writer.write(response).
ServeWrite ==
    /\ serve_pc = "write"
    /\ \E outcome \in Outcomes(request.variant) :
          written' = Append(written, [variant |-> ResponseVariant(request.variant),
                                      id |-> request.id,
                                      outcome |-> outcome])
    /\ request' = NoRequest
    /\ serve_pc' = "read"
    /\ UNCHANGED <<stream, eof, decoded, sent>>
    /\ UNCHANGED <<storage, pool, elsewhere>>

\* writer.write(response) returns an error: serve returns it.
ServeWriteErr ==
    /\ serve_pc = "write"
    /\ request' = NoRequest
    /\ serve_pc' = "failed"
    /\ UNCHANGED <<stream, eof, written, decoded, sent>>
    /\ UNCHANGED <<storage, pool, elsewhere>>

ServeNext ==
    \/ \E variant \in RequestVariants : ClientSend(variant)
    \/ ClientClose
    \/ ServeRead
    \/ ServeEof
    \/ ServeReadErr
    \/ ServeWrite
    \/ ServeWriteErr

ServeInit ==
    Opened /\ Accepted /\ SharedQueueThreadPool(MaxThreads) /\ mode = "server"

\* One client on one connection of the server.
ServeSpec == ServeInit /\ [][ServeNext]_vars

(***************************************************************************)
(* The listener (server/server.rs, run and listen).  listen is one task:   *)
(* a select! over the accept loop and the receiver of the stop signal.     *)
(* The accept loop spawns one detached serve task per connection; the      *)
(* model follows the task of the first connection in detail and counts     *)
(* the others.                                                             *)
(***************************************************************************)
\* A client connects: the connection waits in the queue of the listener.
Connect ==
    /\ listen_pc = "accept"
    /\ connects < MaxConnects
    /\ connects' = connects + 1
    /\ backlog' = backlog + 1
    /\ UNCHANGED <<listen_pc, stop, spawned>>
    /\ UNCHANGED <<storage, pool, server, thread_pool, further>>

\* listener.accept() returns a stream and tokio::spawn starts its serve; the
\* loop goes on to the next accept.
Accept ==
    /\ listen_pc = "accept"
    /\ backlog > 0
    /\ backlog' = backlog - 1
    /\ spawned' = spawned + 1
    /\ serve_pc' = IF spawned = 0 THEN "read" ELSE serve_pc
    /\ UNCHANGED <<listen_pc, stop, connects>>
    /\ UNCHANGED <<stream, eof, request, written, decoded, sent>>
    /\ UNCHANGED <<storage, pool, thread_pool, further>>

\* The holder of the sender sends the stop signal (or drops the sender):
\* the receiver becomes ready.
Signal ==
    /\ stop = "armed"
    /\ stop' = "fired"
    /\ UNCHANGED <<listen_pc, backlog, spawned, connects>>
    /\ UNCHANGED <<storage, pool, server, thread_pool, further>>

\* A listen that aborts the tasks it has spawned when it stops.
StopAborts ==
    /\ listen_pc = "accept"
    /\ stop = "fired"
    /\ listen_pc' = "returned"
    /\ backlog' = 0
    /\ serve_pc' = IF serve_pc \in {"read", "write"} THEN "failed" ELSE serve_pc
    /\ UNCHANGED <<stop, spawned, connects>>
    /\ UNCHANGED <<stream, eof, request, written, decoded, sent>>
    /\ UNCHANGED <<storage, pool, thread_pool, further>>

\* select! finds the receiver ready: the accept loop is dropped, listen and
\* run return Ok and drop the listener with the connections still queued.
\* The serve tasks are detached and stay on the runtime.
Stop ==
    /\ listen_pc = "accept"
    /\ stop = "fired"
    /\ listen_pc' = "returned"
    /\ backlog' = 0
    /\ UNCHANGED <<stop, spawned, connects>>
    /\ UNCHANGED <<storage, pool, server, thread_pool, further>>

\* The client of the first connection and its serve task.
FirstConnection ==
    /\ connects > 0
    /\ ServeNext

ListenNext ==
    \/ Connect
    \/ Accept
    \/ Signal
    \/ Stop
    \/ FirstConnection

ListenInit ==
    Opened /\ Bound /\ SharedQueueThreadPool(MaxThreads) /\ mode = "listen"

\* The server from bind to after its stop, with its clients.
ListenSpec == ListenInit /\ [][ListenNext]_vars

(***************************************************************************)
(* The thread pool (thread_pool/shared_queue.rs): an unbounded crossbeam   *)
(* channel of jobs and the worker threads that receive from it.  A worker  *)
(* is in "recv", in "job" (calling the job it received), "unwinding" from  *)
(* the panic of its job, or "exited".                                      *)
(***************************************************************************)
\* The receivers of the channel: one per thread that has not ended.
Receivers == {w \in Workers : workers[w].pc \in {"recv", "job", "unwinding"}}

\* The jobs that have panicked.
Panicked == {j \in Jobs : jobs[j].pc = "panicked"}

\* spawn(job) while the channel has a receiver: send queues the job.
Spawn(j, panics) ==
    /\ tx = "alive"
    /\ jobs[j].pc = "unspawned"
    /\ Receivers # {}
    /\ channel' = Append(channel, j)
    /\ jobs' = [jobs EXCEPT ![j] = [pc |-> "queued", panics |-> panics, calls |-> 0,
                                    after |-> Cardinality(Panicked)]]
    /\ UNCHANGED <<threads, tx, workers>>
    /\ UNCHANGED <<storage, pool, server, listener, further>>

\* spawn(job) while the channel has no receiver: send returns the job in an
\* error and expect panics in the caller.
SpawnNoReceivers(j) ==
    /\ tx = "alive"
    /\ jobs[j].pc = "unspawned"
    /\ Receivers = {}
    /\ jobs' = [jobs EXCEPT ![j].pc = "refused"]
    /\ UNCHANGED <<threads, tx, channel, workers>>
    /\ UNCHANGED <<storage, pool, server, listener, further>>

\* rx.0.recv() returns Ok(job): the worker takes the oldest job.
Recv(w) ==
    /\ workers[w].pc = "recv"
    /\ channel # <<>>
    /\ workers' = [workers EXCEPT ![w] = [pc |-> "job", job |-> Head(channel)]]
    /\ channel' = Tail(channel)
    /\ jobs' = [jobs EXCEPT ![Head(channel)].pc = "running"]
    /\ UNCHANGED <<threads, tx>>
    /\ UNCHANGED <<storage, pool, server, listener, further>>

\* job() returns: the worker goes back to recv.
Run(w) ==
    /\ workers[w].pc = "job"
    /\ ~jobs[workers[w].job].panics
    /\ jobs' = [jobs EXCEPT ![workers[w].job].pc = "done",
                            ![workers[w].job].calls = @ + 1]
    /\ workers' = [workers EXCEPT ![w] = [pc |-> "recv", job |-> 0]]
    /\ UNCHANGED <<threads, tx, channel>>
    /\ UNCHANGED <<storage, pool, server, listener, further>>

\* job() panics: the thread unwinds and is about to drop its TaskReceiver.
Panic(w) ==
    /\ workers[w].pc = "job"
    /\ jobs[workers[w].job].panics
    /\ jobs' = [jobs EXCEPT ![workers[w].job].pc = "panicked",
                            ![workers[w].job].calls = @ + 1]
    /\ workers' = [workers EXCEPT ![w] = [pc |-> "unwinding", job |-> 0]]
    /\ UNCHANGED <<threads, tx, channel>>
    /\ UNCHANGED <<storage, pool, server, listener, further>>

\* A drop of the TaskReceiver that only lets the panicking thread end.
DropEnds(w) ==
    /\ workers[w].pc = "unwinding"
    /\ workers' = [workers EXCEPT ![w] = [pc |-> "exited", job |-> 0]]
    /\ UNCHANGED <<threads, tx, channel, jobs>>
    /\ UNCHANGED <<storage, pool, server, listener, further>>

\* Drop for TaskReceiver in a panicking thread: it clones the receiver and
\* spawns a thread with the same loop, which takes the place of this one.
DropPanicking(w) ==
    /\ workers[w].pc = "unwinding"
    /\ workers' = [workers EXCEPT ![w] = [pc |-> "recv", job |-> 0]]
    /\ UNCHANGED <<threads, tx, channel, jobs>>
    /\ UNCHANGED <<storage, pool, server, listener, further>>

\* The SharedQueueThreadPool is dropped, and its sender with it.
DropThreadPool ==
    /\ tx = "alive"
    /\ tx' = "dropped"
    /\ UNCHANGED <<threads, channel, workers, jobs>>
    /\ UNCHANGED <<storage, pool, server, listener, further>>

\* rx.0.recv() returns Err, the channel being empty with no sender left: the
\* loop ends and the thread with it (Drop for TaskReceiver, not panicking).
RecvErr(w) ==
    /\ workers[w].pc = "recv"
    /\ channel = <<>>
    /\ tx = "dropped"
    /\ workers' = [workers EXCEPT ![w] = [pc |-> "exited", job |-> 0]]
    /\ UNCHANGED <<threads, tx, channel, jobs>>
    /\ UNCHANGED <<storage, pool, server, listener, further>>

ThreadPoolNext ==
    \/ \E j \in Jobs, panics \in BOOLEAN : Spawn(j, panics)
    \/ \E j \in Jobs : SpawnNoReceivers(j)
    \/ \E w \in Workers : Recv(w)
    \/ \E w \in Workers : Run(w)
    \/ \E w \in Workers : Panic(w)
    \/ \E w \in Workers : DropPanicking(w)
    \/ DropThreadPool
    \/ \E w \in Workers : RecvErr(w)

\* new(threads) for any number of threads.
ThreadPoolInit ==
    /\ Opened /\ Accepted /\ mode = "thread_pool"
    /\ \E n \in 0..MaxThreads : SharedQueueThreadPool(n)

\* One SharedQueueThreadPool, the callers of its spawn and its workers.
ThreadPoolSpec == ThreadPoolInit /\ [][ThreadPoolNext]_vars

\* The scheduler runs every thread, and every job returns or panics.
ThreadPoolFairSpec ==
    /\ ThreadPoolSpec
    /\ \A w \in Workers :
          /\ WF_vars(Recv(w))
          /\ WF_vars(Run(w) \/ Panic(w))
          /\ WF_vars(DropPanicking(w))

(***************************************************************************)
(* Properties.                                                             *)
(***************************************************************************)
(***************************************************************************)
(* The calls of the client (client/client.rs).  Client::get, set, remove   *)
(* and list each take a connection from the pool, write one request frame  *)
(* on it and read one response frame from it; the handle is dropped when   *)
(* the call returns and when its future is dropped at one of its awaits.   *)
(* A frame is kept as the rank of the request it is, or answers.           *)
(***************************************************************************)
\* Number of tasks that call the client.
NCallers == 2
Callers == 1..NCallers

\* conn.writer.write(request) on the connection of the handle that
\* self.pool.get() returned.
ClientWrite(t) ==
    /\ task_pc[t] = "holding"
    /\ call[t].ticket # ticket[t]
    /\ calls' = calls + 1
    /\ call' = [call EXCEPT ![t] = [ticket |-> ticket[t], request |-> calls + 1,
                                    response |-> 0]]
    /\ wire' = [wire EXCEPT ![object[t]].requests = Append(@, calls + 1)]
    /\ UNCHANGED <<storage, pool, server, listener, thread_pool, predecessor>>

\* One turn of the loop of the serve task of connection c: it reads the
\* first request frame that arrived (the frames its FramedRead buffered
\* after it are lost with it), calls the storage and writes the response.
ClientServe(c) ==
    /\ wire[c].requests # <<>>
    /\ \E n \in 1..Len(wire[c].requests) :
          wire' = [wire EXCEPT ![c] =
                      [requests |-> SubSeq(@.requests, n + 1, Len(@.requests)),
                       responses |-> Append(@.responses, Head(@.requests))]]
    /\ UNCHANGED <<call, calls>>
    /\ UNCHANGED <<storage, pool, server, listener, thread_pool, predecessor>>

\* conn.reader.read(): the first response frame that arrived on the
\* connection of the handle (the frames the FramedRead buffered after it are
\* lost with it).
ClientRead(t) ==
    /\ task_pc[t] = "holding"
    /\ call[t].ticket = ticket[t]
    /\ call[t].response = 0
    /\ wire[object[t]].responses # <<>>
    /\ \E n \in 1..Len(wire[object[t]].responses) :
          wire' = [wire EXCEPT ![object[t]].responses = SubSeq(@, n + 1, Len(@))]
    /\ call' = [call EXCEPT ![t].response = Head(wire[object[t]].responses)]
    /\ UNCHANGED calls
    /\ UNCHANGED <<storage, pool, server, listener, thread_pool, predecessor>>

\* The steps of the calls of the tasks: Pool::get, the write, the read, and
\* the drop of the handle, at the return or with the future of the call.
ClientNext ==
    \/ \E t \in Callers : Acquire(t)
    \/ \E t \in Callers : Pop(t)
    \/ \E t \in Callers : Connected(t)
    \/ \E t \in Callers : ClientWrite(t)
    \/ \E c \in Connections : ClientServe(c)
    \/ \E t \in Callers : ClientRead(t)
    \/ \E t \in Callers : Drop(t)
    \/ \E t \in Callers : AddPermit(t)

ClientInit ==
    Opened /\ Accepted /\ SharedQueueThreadPool(MaxThreads) /\ mode = "client"

\* The tasks of a client calling the server through one pool.
ClientSpec == ClientInit /\ [][ClientNext]_vars

(***************************************************************************)
(* The calls on a KvStore (store/kv_store.rs).  They take &mut self: one   *)
(* call at a time, each one step.                                          *)
(***************************************************************************)
\* Number of calls of set, remove, merge and open on the KvStore in one run.
MaxKvOps == 4

\* The values given to KvStore::set.
KvValues == Values \ {<<>>}

\* The bytes the reader of file_id sees.
KvContent(file_id) ==
    IF ReaderPath(file_id) \in DOMAIN kv_dir THEN kv_dir[ReaderPath(file_id)] ELSE <<>>

\* KvStore::get
KvGet(key) ==
    IF key \notin DOMAIN store.key_dir THEN None
    ELSE IF store.key_dir[key].value_len = 0 THEN None
    ELSE IF store.key_dir[key].file_id \notin store.readers
         THEN [tag |-> "Unexpected", val |-> <<>>]
    ELSE Apply(LAMBDA r : IF r.tag = "Ok" THEN Some(r.val)
                          ELSE [tag |-> r.tag, val |-> <<>>],
               read_value(KvContent(store.key_dir[key].file_id), store.key_dir[key]))

\* KvStore::set: the record is appended to the active file, which is changed
\* for a new one when the record ends above the threshold, and the entry is
\* inserted.
KvSet(key, value) ==
    /\ store.opened = "Ok"
    /\ kv_ops < MaxKvOps
    /\ kv_ops' = kv_ops + 1
    /\ \E timestamp \in Timestamps :
       \E w \in {write_value(kv_dir[log_path(store.active_file_id)],
                             store.active_file_id, key, value, timestamp)} :
          IF OverThreshold(w.entry)
          THEN /\ kv_dir' = Create(Put(kv_dir, log_path(store.active_file_id), w.bytes),
                                   log_path(store.active_file_id + 1))
               /\ store' = [store EXCEPT !.active_file_id = @ + 1,
                                         !.readers = @ \cup {store.active_file_id + 1},
                                         !.key_dir = Insert(@, key, w.entry)]
          ELSE /\ kv_dir' = Put(kv_dir, log_path(store.active_file_id), w.bytes)
               /\ store' = [store EXCEPT !.key_dir = Insert(@, key, w.entry)]
    /\ kv_latest' = [kv_latest EXCEPT ![key] = Some(value)]
    /\ kv_merged' = "no"
    /\ UNCHANGED <<storage, pool, server, listener, thread_pool, client>>

\* KvStore::remove: KeyNotFound for a key that is not in key_dir; otherwise a
\* tombstone record is appended and its entry inserted.
KvRemove(key) ==
    /\ store.opened = "Ok"
    /\ kv_ops < MaxKvOps
    /\ kv_ops' = kv_ops + 1
    /\ IF key \notin DOMAIN store.key_dir
       THEN UNCHANGED <<kv_dir, store, kv_latest, kv_merged>>
       ELSE \E timestamp \in Timestamps :
            \E w \in {write_value(kv_dir[log_path(store.active_file_id)],
                                  store.active_file_id, key, <<>>, timestamp)} :
               /\ kv_dir' = Put(kv_dir, log_path(store.active_file_id), w.bytes)
               /\ store' = [store EXCEPT !.key_dir = Insert(@, key, w.entry)]
               /\ kv_latest' = [kv_latest EXCEPT ![key] = None]
               /\ kv_merged' = "no"
    /\ UNCHANGED <<storage, pool, server, listener, thread_pool, client>>

\* The orders in which a HashMap can yield the elements of S.
Orders(S) ==
    {order \in [1..Cardinality(S) -> S] :
        \A i, j \in 1..Cardinality(S) : i # j => order[i] # order[j]}

\* The loop of merge over key_dir from the i-th key of order on: the value of
\* every entry that is not a tombstone is read through the reader of its file
\* and written to the temporary merge file, and its new entry to the
\* temporary hint file; a missing reader or a failed read ends merge.
RECURSIVE MergeLoop(_, _, _, _, _)
MergeLoop(order, i, timestamp, merge_bytes, hint_bytes) ==
    IF i > Len(order) THEN [tag |-> "Ok", merge |-> merge_bytes, hint |-> hint_bytes]
    ELSE IF store.key_dir[order[i]].value_len = 0
         THEN MergeLoop(order, i + 1, timestamp, merge_bytes, hint_bytes)
    ELSE IF store.key_dir[order[i]].file_id \notin store.readers
         THEN [tag |-> "Unexpected", merge |-> merge_bytes, hint |-> hint_bytes]
    ELSE Apply(LAMBDA value :
           IF value.tag # "Ok"
           THEN [tag |-> value.tag, merge |-> merge_bytes, hint |-> hint_bytes]
           ELSE Apply(LAMBDA w :
                        MergeLoop(order, i + 1, timestamp, w.bytes,
                                  write_hint(hint_bytes, order[i], w.entry)),
                      write_value(merge_bytes, MERGE_FILE_ID, order[i], value.val,
                                  timestamp)),
           read_value(KvContent(store.key_dir[order[i]].file_id),
                      store.key_dir[order[i]]))

\* The directory after a merge whose loop left the temporary files d holds:
\* the log files of the readers, the merge file and the hint file are
\* removed, the temporary files renamed and 1.log created.
Merged(d) ==
    Create(Rename(Rename(RemoveFiles(d, {log_path(file_id) :
                                            file_id \in store.readers \ {MERGE_FILE_ID}}
                                        \cup {MERGE_FILE, HINT_FILE}),
                         temp_merge_file, MERGE_FILE),
                  temp_hint_file, HINT_FILE),
           log_path(MERGE_FILE_ID + 1))

\* KvStore::merge.  The temporary files are opened with create and append
\* (what an earlier merge that failed left in them stays); when the loop
\* fails they are left behind.  At the end the writer and the readers are
\* replaced; key_dir is not touched.
KvMerge ==
    /\ store.opened = "Ok"
    /\ kv_ops < MaxKvOps
    /\ kv_ops' = kv_ops + 1
    /\ \E timestamp \in Timestamps :
       \E order \in Orders(DOMAIN store.key_dir) :
       \E d \in {Create(Create(kv_dir, temp_merge_file), temp_hint_file)} :
       \E m \in {MergeLoop(order, 1, timestamp, d[temp_merge_file], d[temp_hint_file])} :
          IF m.tag # "Ok"
          THEN /\ kv_dir' = Put(Put(d, temp_merge_file, m.merge), temp_hint_file, m.hint)
               /\ kv_merged' = "no"
               /\ UNCHANGED store
          ELSE /\ kv_dir' = Merged(Put(Put(d, temp_merge_file, m.merge),
                                       temp_hint_file, m.hint))
               /\ store' = [store EXCEPT !.active_file_id = MERGE_FILE_ID + 1,
                                         !.readers = {MERGE_FILE_ID, MERGE_FILE_ID + 1}]
               /\ kv_merged' = "merged"
    /\ UNCHANGED kv_latest
    /\ UNCHANGED <<storage, pool, server, listener, thread_pool, client>>

\* The KvStore is dropped and KvStore::open is called on its directory.
KvReopen ==
    /\ kv_ops < MaxKvOps
    /\ kv_ops' = kv_ops + 1
    /\ \E o \in {KvStore_open(kv_dir)} :
          /\ kv_dir' = o.dir
          /\ store' = Instance(o)
    /\ kv_merged' = IF kv_merged = "no" THEN "no" ELSE "reopened"
    /\ UNCHANGED kv_latest
    /\ UNCHANGED <<storage, pool, server, listener, thread_pool, client>>

KvNext ==
    \/ \E key \in Keys, value \in KvValues : KvSet(key, value)
    \/ \E key \in Keys : KvRemove(key)
    \/ KvMerge
    \/ KvReopen

KvInit ==
    Opened /\ Accepted /\ SharedQueueThreadPool(MaxThreads) /\ mode = "kv_store"

\* One KvStore on its directory.
KvSpec == KvInit /\ [][KvNext]_vars

\* No call is running: every call that was started has returned.
Quiescent == opened = "Ok" /\ \A t \in Clones : pc[t] \in {"idle", "done"}

\* Clone t has just returned from a call of op.
Done(t, op) == pc[t] = "done" /\ result[t].op = op

\* C1: round trip.  With the clones used one call at a time, whenever no call
\* is running, get(k) returns Some(v) for the v of the most recent set on k
\* (the last write to k that returned Ok is that set), for every value v, the
\* empty string included, on every clone and on the engine that a reopen of the
\* directory gives.
C1_RoundTrip ==
    Quiescent =>
        \A k \in Keys :
            latest[k].tag = "Set" =>
                /\ \A t \in Clones : Get(t, k) = Some(latest[k].val)
                /\ RecoveredGet(Recovered, k) = Some(latest[k].val)

\* C2: durability.  With the clones used one call at a time, when all clones
\* are dropped after completed set, remove and compact calls and the directory
\* is reopened, open succeeds, and get(k), for every key and on every clone,
\* and list_keys() return exactly what they returned just before the close.
C2_Durability ==
    Done(1, "open") =>
        /\ result[1].tag = "Ok"
        /\ \A k \in Keys : \A u \in Clones : Get(u, k) = before[1].get[u][k]
        /\ list_keys(key_dir) = before[1].keys

\* The directory has been reopened after set, remove and compact calls: one key
\* is live with a non-empty value, which get returns from the reopened engine,
\* another key was removed, and the directory holds a hint file with a record.
C2_Witness ==
    /\ Done(1, "open")
    /\ \E k \in Keys : /\ latest[k].tag = "Set"
                       /\ latest[k].val # <<>>
                       /\ Get(1, k) = Some(latest[k].val)
    /\ \E k \in Keys : latest[k].tag = "Removed"
    /\ \E n \in DOMAIN files : n.ext = "hint" /\ files[n] # <<>>

\* C3: same-key serialization.  With set, remove and compact issued from
\* concurrent threads through the clones, once all calls have returned the
\* entry of every key in the key directory is the entry of the record that was
\* appended last for the key, and get(k) in the session equals get(k) on the
\* reopened directory.
C3_SameKeySerialization ==
    Quiescent =>
        /\ key_dir = appended
        /\ \A k \in Keys : \A t \in Clones : Get(t, k) = RecoveredGet(Recovered, k)

\* C4: reads during compaction.  With the clones used from concurrent threads,
\* a get never returns an error: it returns Some or None.
C4_GetNeverFails ==
    \A t \in Clones : Done(t, "get") => result[t].tag \in {"Some", "None"}

\* C5: compaction preserves contents.  With the clones used one call at a time,
\* when compact() has returned Ok, get(k) returns for every key and on every
\* clone what it returned when the compaction began, list_keys() returns the
\* same keys, and the same holds on the reopened directory.
C5_CompactPreserves ==
    \A t \in Clones :
        (Done(t, "compact") /\ result[t].tag = "Ok") =>
            LET o == Recovered
            IN /\ \A k \in Keys :
                    /\ \A u \in Clones : Get(u, k) = before[t].get[u][k]
                    /\ RecoveredGet(o, k) = before[t].get[t][k]
               /\ list_keys(key_dir) = before[t].keys
               /\ o.tag = "Ok"
               /\ list_keys(o.key_dir) = before[t].keys

\* A compact has returned Ok after it moved a live, non-empty value to its merge
\* file (the entry of the key names a file above the first), while another key
\* is removed.
C5_Witness ==
    \E t \in Clones :
        /\ Done(t, "compact")
        /\ result[t].tag = "Ok"
        /\ \E k \in Keys : /\ before[t].get[t][k].tag = "Some"
                           /\ before[t].get[t][k].val # <<>>
                           /\ key_dir[k].file_id > LOWEST_LOG_FILE_ID
        /\ \E k \in Keys : latest[k].tag = "Removed"

\* C6: no lost writer.  When every clone has, from its own thread, called set
\* on a key of its own, these sets being the only writes so far, and all have
\* returned, get(key_i) returns Some(value_i) for each of them on every clone
\* and on the reopened directory.
C6_NoLostWriter ==
    ( /\ ops = NClones
      /\ \A t \in Clones : Done(t, "set")
      /\ \A t, u \in Clones : t # u => result[t].key # result[u].key ) =>
        \A t \in Clones :
            LET k == result[t].key
            IN /\ latest[k].tag = "Set"
               /\ \A u \in Clones : Get(u, k) = Some(latest[k].val)
               /\ RecoveredGet(Recovered, k) = Some(latest[k].val)

\* The same for the sets that write a non-empty value.
NoLostWriterNonEmpty ==
    ( /\ ops = NClones
      /\ \A t \in Clones : Done(t, "set")
      /\ \A t, u \in Clones : t # u => result[t].key # result[u].key ) =>
        \A t \in Clones :
            LET k == result[t].key
            IN /\ latest[k].tag = "Set"
               /\ latest[k].val # <<>> =>
                    /\ \A u \in Clones : Get(u, k) = Some(latest[k].val)
                    /\ RecoveredGet(Recovered, k) = Some(latest[k].val)

\* C7: read your writes.  A get(k) that begins after a set(k, v) has returned,
\* with no other write to k from then until the get returns, returns Some(v),
\* on every clone.
C7_ReadYourWrites ==
    \A t \in Clones :
        (Done(t, "get") /\ expect[t].tag = "Some") =>
            (result[t].tag = "Some" /\ result[t].val = expect[t].val)

\* C8: after a remove(k) that returned Ok and until the next set on k, whenever
\* no call is running, get(k) returns None and list_keys() does not contain k,
\* in the session and on the reopened directory; the clones are used from
\* concurrent threads.
C8_RemovedStaysRemoved ==
    Quiescent =>
        \A k \in Keys :
            latest[k].tag = "Removed" =>
                LET o == Recovered
                    InSeq(x, seq) == \E i \in 1..Len(seq) : seq[i] = x
                IN /\ \A t \in Clones : Get(t, k) = None
                   /\ ~InSeq(k, list_keys(key_dir))
                   /\ RecoveredGet(o, k) = None
                   /\ o.tag = "Ok" => ~InSeq(k, list_keys(o.key_dir))

\* C9: remove(k) returns KeyNotFound whenever k is absent from the directory or
\* the last completed write to k is a remove that returned Ok: with the clones
\* used one call at a time, every step in which a remove(k) passes its check in
\* such a state ends the call with KeyNotFound.
C9_RemoveKeyNotFound ==
    [][\A t \in Clones :
          (pc[t] = "idle" /\ (pc'[t] = "remove_write" \/ Done(t, "remove")')) =>
              LET k == IF pc'[t] = "remove_write" THEN local'[t].key ELSE result'[t].key
              IN (k \notin DOMAIN key_dir \/ latest[k].tag = "Removed") =>
                     (pc'[t] = "done" /\ result'[t].tag = "KeyNotFound")]_vars

\* C10: a remove(k) that returns KeyNotFound changes nothing: in the step in
\* which the call returns KeyNotFound no file of the directory changes, and the
\* key directory and active_file_id stay as they are; this holds with the
\* clones used from concurrent threads.
C10_KeyNotFoundChangesNothing ==
    [][\A t \in Clones :
          (pc[t] = "idle" /\ Done(t, "remove")' /\ result'[t].tag = "KeyNotFound") =>
              /\ files' = files
              /\ key_dir' = key_dir
              /\ active_file_id' = active_file_id]_vars

\* A remove has returned KeyNotFound while the directory holds a record and the
\* key directory an entry.
C10_Witness ==
    \E t \in Clones :
        /\ Done(t, "remove")
        /\ result[t].tag = "KeyNotFound"
        /\ key_dir # <<>>
        /\ \E n \in DOMAIN files : files[n] # <<>>

\* x occurs in the sequence seq.
InSeq(x, seq) == \E i \in 1..Len(seq) : seq[i] = x

\* The list that list_keys returns is exactly the set of keys for which get
\* returns Some, each once.
ListKeysMatchesGet ==
    Quiescent =>
        LET keys == list_keys(key_dir)
        IN /\ \A i, j \in 1..Len(keys) : keys[i] = keys[j] => i = j
           /\ \A k \in Keys : \A t \in Clones :
                  InSeq(k, keys) <=> Get(t, k).tag = "Some"

\* C11: with the clones used one call at a time, list_keys() returns exactly
\* the keys for which get returns Some, each once; a key whose last write is a
\* remove is not listed; and a set on a removed key makes the key listed again:
\* in the step in which such a set returns, the key enters the list.
C11_ListKeys ==
    /\ [](ListKeysMatchesGet)
    /\ [](Quiescent => \A k \in Keys :
              latest[k].tag = "Removed" => ~InSeq(k, list_keys(key_dir)))
    /\ [][\A t \in Clones :
             (pc[t] = "set_insert" /\ pc'[t] = "done"
                 /\ latest[local[t].key].tag = "Removed") =>
                 InSeq(local[t].key, list_keys(key_dir'))]_vars

\* A record of the log file bytes, reached from pos record by record, has a
\* stored checksum that differs from the checksum of its contents.
RECURSIVE BadRecord(_, _)
BadRecord(bytes, pos) ==
    LET r == read_next_entry(bytes, pos, 0)
    IN IF r.tag = "DataCorruption" THEN TRUE
       ELSE IF r.tag = "Entry" THEN BadRecord(bytes, r.next)
       ELSE FALSE

\* Some .log file of the directory d holds such a record.
HasBadRecord(d) == \E n \in DOMAIN d : n.ext = "log" /\ BadRecord(d[n], 0)

\* C12: checksum at recovery.  Whenever open has run on a directory in which a
\* record of some .log file (the merge file of the hint file included) has a
\* stored checksum that does not match its contents, open has failed with
\* DataCorruption.
C12_ChecksumAtRecovery ==
    (Done(1, "open") /\ HasBadRecord(files)) => result[1].tag = "DataCorruption"

\* The size of a directory that holds, for each key of kd with a value, one
\* record in the merge file and one hint in the hint file, and nothing else.
RECURSIVE CompactedSizeOf(_, _)
CompactedSizeOf(kd, keys) ==
    IF keys = {} THEN 0
    ELSE LET k == CHOOSE x \in keys : TRUE
         IN (IF kd[k].value_len = 0 THEN 0
             ELSE (HeaderSize + Len(k) + kd[k].value_len) + (HintHeaderSize + Len(k)))
            + CompactedSizeOf(kd, keys \ {k})

CompactedSize(kd) == CompactedSizeOf(kd, DOMAIN kd)

\* The size of the hint file alone.
RECURSIVE HintSizeOf(_, _)
HintSizeOf(kd, keys) ==
    IF keys = {} THEN 0
    ELSE LET k == CHOOSE x \in keys : TRUE
         IN (IF kd[k].value_len = 0 THEN 0 ELSE HintHeaderSize + Len(k))
            + HintSizeOf(kd, keys \ {k})

HintSize(kd) == HintSizeOf(kd, DOMAIN kd)

\* C13 as stated: compaction shrinks.  Whenever every key has been overwritten
\* at least once and compact has returned Ok, the sum of the sizes of all files
\* of the directory is strictly smaller than before the compact.
C13_CompactShrinks ==
    \A t \in Clones :
        (Done(t, "compact") /\ result[t].tag = "Ok" /\ before[t].overwritten)
            => DirSize(files) < before[t].size

\* C13, amended: when compact has returned Ok, the directory holds exactly one
\* record (HeaderSize + key + value bytes) and one hint (HintHeaderSize + key
\* bytes) for each key with a value, and an empty active file; it has grown by
\* no more than the size of the new hint file.
C13_CompactSize ==
    \A t \in Clones :
        (Done(t, "compact") /\ result[t].tag = "Ok") =>
            /\ DirSize(files) = CompactedSize(key_dir)
            /\ DirSize(files) <= before[t].size + HintSize(key_dir)

\* A compact has returned Ok on a directory in which every key was overwritten,
\* and the directory is strictly smaller than before.
C13_Witness ==
    \E t \in Clones :
        /\ Done(t, "compact")
        /\ result[t].tag = "Ok"
        /\ before[t].overwritten
        /\ \E k \in DOMAIN key_dir : key_dir[k].value_len # 0
        /\ DirSize(files) < before[t].size

\* The tasks that hold a handle, and the connections the pool has open or is
\* opening.
Handles == {t \in Tasks : task_pc[t] = "holding"}
OpenConnections == {c \in Connections : connection[c] \in {"connecting", "open"}}

\* C14: pool bound.  In every state at most max_size handles are handed out
\* and at most max_size connections are open (idle, handed out or being
\* opened); and no acquire returns a handle in a step that begins with
\* max_size handles out, so an acquire issued while max_size handles are out
\* does not return until one of them is dropped.
C14_PoolBound ==
    /\ [](Cardinality(Handles) <= MaxSize /\ Cardinality(OpenConnections) <= MaxSize)
    /\ [][\A t \in Tasks :
            (task_pc[t] # "holding" /\ task_pc'[t] = "holding")
                => Cardinality(Handles) < MaxSize]_vars

\* max_size handles are out, on max_size open connections, and an acquire
\* issued meanwhile is waiting.
C14_Witness ==
    /\ Cardinality(Handles) = MaxSize
    /\ Cardinality(OpenConnections) = MaxSize
    /\ \E t \in Tasks : task_pc[t] = "waiting"

\* The acquires that hold a permit (taken or handed over, not yet forgotten),
\* and the handles handed out whose permit has not been added back.
HoldingPermit == {t \in Tasks : task_pc[t] \in {"permit", "woken", "connecting"}}
HandedOut == {t \in Tasks : task_pc[t] \in {"holding", "returning"}}

\* C15: permit conservation.  While the pool exists, the available permits,
\* the handles handed out and the acquires holding a permit add up to
\* max_size, whatever acquires succeeded, failed while connecting or were
\* cancelled while waiting or connecting; the available permits never exceed
\* max_size.
C15_PermitConservation ==
    /\ pool_alive =>
         semaphore.permits + Cardinality(HandedOut) + Cardinality(HoldingPermit) = MaxSize
    /\ semaphore.permits <= MaxSize

\* After a failed or cancelled connect and the return of a connection, all
\* the permits are available again.
C15_Witness ==
    /\ pool_alive
    /\ \E c \in Connections : connection[c] = "failed"
    /\ slots # <<>>
    /\ semaphore.permits = MaxSize

\* C16: broken connections are evicted.  A connection on which a read or a
\* write failed while it was handed out is never in the idle queue, and no
\* acquire receives it from the queue.
C16_BrokenEvicted ==
    /\ [](\A i \in DOMAIN slots : slots[i] \notin broken)
    /\ [][\A t \in Tasks :
            (task_pc[t] \in {"permit", "woken"} /\ task_pc'[t] = "holding")
                => object'[t] \notin broken]_vars

\* No acquire is under way and no handle is out or being returned.
AllDropped == \A t \in Tasks : task_pc[t] = "idle"

\* The connections in the idle queue, and those that were opened and not closed.
Idle_ == {slots[i] : i \in DOMAIN slots}
Opened_ == {c \in Connections : connection[c] = "open"}

\* get takes the front of the queue when the queue is not empty, and begins a
\* connect only when it is empty.
PopsBeforeConnecting ==
    [][\A t \in Tasks :
         /\ (task_pc[t] \in {"permit", "woken"} /\ slots # <<>>
                /\ task_pc'[t] \in {"holding", "connecting"})
               => /\ task_pc'[t] = "holding"
                  /\ object'[t] = Head(slots)
                  /\ slots' = Tail(slots)
                  /\ connection' = connection
         /\ (task_pc[t] # "connecting" /\ task_pc'[t] = "connecting") => slots = <<>>]_vars

\* C17 as stated: reuse.  get pops when the queue is not empty and connects
\* only when it is empty; hence once N <= max_size handles have been acquired
\* and all dropped, the idle queue holds N connections.
C17_Reuse ==
    /\ PopsBeforeConnecting
    /\ []((pool_alive /\ AllDropped /\ handed <= MaxSize) => Len(slots) = handed)

\* C17, amended: get pops when the queue is not empty and connects only when
\* it is empty; hence, while the pool exists, every connection that was opened
\* is either in exactly one handle or exactly once in the idle queue, and once
\* all handles are dropped the queue holds the connections that were opened:
\* as many as there were acquires that found the queue empty, at most
\* min(N, max_size).
C17_ReuseOpened ==
    /\ PopsBeforeConnecting
    /\ [](pool_alive =>
            /\ Opened_ = Idle_ \cup {object[t] : t \in Handles}
            /\ Cardinality(Idle_) = Len(slots)
            /\ Idle_ \cap {object[t] : t \in Handles} = {}
            /\ Cardinality(Opened_) <= handed
            /\ Cardinality(Opened_) <= MaxSize
            /\ AllDropped => Len(slots) = Cardinality(Opened_))

\* More handles than max_size have been acquired and all are dropped: the
\* queue holds max_size connections.
C17_Witness ==
    /\ pool_alive
    /\ AllDropped
    /\ handed > MaxSize
    /\ Len(slots) = MaxSize

C19_HandleDrop ==
    [][\A t \in Tasks :
         /\ (task_pc[t] = "holding" /\ task_pc'[t] # "holding") =>
               IF pool_alive
               THEN /\ slots' = Append(slots, object[t])
                    /\ task_pc'[t] = "returning"
                    /\ semaphore' = semaphore
                    /\ connection' = connection
               ELSE /\ connection' = [connection EXCEPT ![object[t]] = "closed"]
                    /\ task_pc'[t] = "idle"
                    /\ slots' = slots
                    /\ semaphore' = semaphore
         /\ (task_pc[t] = "returning" /\ task_pc'[t] # "returning") =>
               /\ task_pc'[t] = "idle"
               /\ slots' = slots
               /\ connection' = connection
               /\ IF semaphore.waiters = <<>>
                  THEN semaphore' = [semaphore EXCEPT !.permits = @ + 1]
                  ELSE /\ semaphore' = [semaphore EXCEPT !.waiters = Tail(@)]
                       /\ task_pc'[Head(semaphore.waiters)] = "woken"]_vars

\* Every handle is dropped, one of them after the pool was destroyed (its
\* permit was not added back and its connection is closed), others before
\* (more handles were handed out than there are permits).
C19_Witness ==
    /\ ~pool_alive
    /\ AllDropped
    /\ semaphore.permits < MaxSize
    /\ handed > MaxSize
    /\ \E c \in Connections : connection[c] = "closed"

\* C20: server wire loop.  On one connection the k-th response frame written
\* is the response to the k-th request frame read and has the variant that
\* matches it; serve writes one response per request read before it reads
\* again, and goes on reading after each response until the stream ends or an
\* error occurs, so any number of cycles run on one connection.
C20_WireLoop ==
    /\ \A k \in 1..Len(written) :
          /\ k <= Len(decoded)
          /\ written[k].id = decoded[k].id
          /\ decoded[k].variant = "Get" => written[k].variant = "GetResponse"
          /\ decoded[k].variant = "Set" => written[k].variant = "SetResponse"
          /\ decoded[k].variant = "Remove" => written[k].variant = "RemoveResponse"
          /\ decoded[k].variant = "List" => written[k].variant = "ListResponse"
    /\ serve_pc = "read" => Len(written) = Len(decoded)
    /\ serve_pc = "write" => Len(written) + 1 = Len(decoded)
    /\ serve_pc = "closed" => (eof /\ stream = <<>> /\ Len(written) = Len(decoded))

\* MaxFrames request / response cycles of more than one variant have run on
\* the connection, every request written by the client answered in turn, and
\* serve is reading again.
C20_Witness ==
    /\ serve_pc = "read"
    /\ Len(written) = MaxFrames
    /\ \A k \in 1..MaxFrames : decoded[k].id = k
    /\ \E j, k \in 1..MaxFrames : written[j].variant # written[k].variant

\* C21: per-request errors keep the connection.  A step of serve that writes a
\* response, Err(message) included, writes the variant matching the request and
\* leaves serve reading the next request on the same connection; serve returns
\* Ok only at the end of the stream, at a frame boundary, and returns an error
\* only from a read or a write that failed, never after a response was written
\* for the request at hand.
C21_ErrorsKeepConnection ==
    /\ [][written' # written =>
            /\ serve_pc = "write"
            /\ serve_pc' = "read"
            /\ Len(written') = Len(written) + 1
            /\ written'[Len(written')].id = request.id
            /\ request.variant = "Get" => written'[Len(written')].variant = "GetResponse"
            /\ request.variant = "Set" => written'[Len(written')].variant = "SetResponse"
            /\ request.variant = "Remove" => written'[Len(written')].variant = "RemoveResponse"
            /\ request.variant = "List" => written'[Len(written')].variant = "ListResponse"
            /\ written'[Len(written')].outcome \in {"Ok", "Err"}]_vars
    /\ [][(serve_pc' = "closed" /\ serve_pc # "closed") =>
            (serve_pc = "read" /\ eof /\ stream = <<>> /\ request = NoRequest)]_vars
    /\ [][(serve_pc' = "failed" /\ serve_pc # "failed") => written' = written]_vars

\* An Err response to a Remove was followed by the response to the next
\* request of the same connection.
C21_Witness ==
    \E k \in 1..Len(written) :
        /\ k < Len(written)
        /\ written[k].variant = "RemoveResponse"
        /\ written[k].outcome = "Err"
        /\ written[k + 1].id = written[k].id + 1

\* The ranks of the request frames in a sequence of frames.
Ranks(frames) == {frames[i].id : i \in DOMAIN frames}

\* C22: pipelining.  Whatever the client has written before it reads a
\* response, no request frame is dropped or skipped: every frame written is
\* still on its way or has been read by serve, and serve reads the frames in
\* the order in which they were written and answers them in that order.
C22_Pipelining ==
    /\ Ranks(stream) \cup Ranks(decoded) = 1..sent
    /\ \A k \in 1..Len(decoded) : decoded[k].id = k
    /\ \A k \in 1..Len(written) : written[k].id = k

\* C23 as stated: graceful stop.  From the moment the stop signal has fired
\* no further connection is accepted; the stop leaves the serve tasks already
\* spawned as they are, and after run has returned a task still ends only
\* when its client has disconnected (or a read or a write has failed).
C23_GracefulStop ==
    /\ [][stop = "fired" => spawned' = spawned]_vars
    /\ [][listen_pc' # listen_pc => UNCHANGED server]_vars
    /\ [][(listen_pc = "returned" /\ serve_pc' = "closed" /\ serve_pc # "closed")
            => (eof /\ stream = <<>>)]_vars

\* C23: graceful stop, from the moment listen has taken the signal.  Once
\* the select! of listen has completed on the receiver (run has returned) no
\* further connection is accepted; between the send of the signal and that
\* moment the accept loop may still accept.  The stop leaves the serve tasks
\* already spawned as they are, and after run has returned a task still ends
\* only when its client has disconnected (or a read or a write has failed).
C23_GracefulStopTaken ==
    /\ [][listen_pc = "returned" => (spawned' = spawned /\ connects' = connects)]_vars
    /\ [][listen_pc' # listen_pc => UNCHANGED server]_vars
    /\ [][(listen_pc = "returned" /\ serve_pc' = "closed" /\ serve_pc # "closed")
            => (eof /\ stream = <<>>)]_vars

\* run has returned while the first connection was being served, a second
\* connection was dropped with the listener, and the task of the first one
\* has answered all its requests and returned at the end of its stream.
C23_Witness ==
    /\ listen_pc = "returned"
    /\ connects = 2
    /\ spawned = 1
    /\ serve_pc = "closed"
    /\ Len(written) = MaxFrames

\* The number of times job j is in the channel or in the hands of a worker.
Held(j) ==
    Cardinality({i \in DOMAIN channel : channel[i] = j})
        + Cardinality({w \in Workers : workers[w].job = j})

\* C24: panic resilience of SharedQueueThreadPool.  Whatever the number of
\* jobs that have panicked, the pool has as many worker threads as new was
\* given for as long as it exists (a thread unwinding from a panic counts with
\* the thread that takes its place), a job that spawn has queued is in the
\* channel or with one worker until it has been called, and it is called once.
C24_PanicResilience ==
    /\ [](tx = "alive" => Cardinality(Receivers) = threads)
    /\ [](\A j \in Jobs :
            /\ jobs[j].pc \in {"queued", "running"} => Held(j) = 1
            /\ jobs[j].pc \in {"done", "panicked"} => (Held(j) = 0 /\ jobs[j].calls = 1))
    /\ \A j \in Jobs : (jobs[j].pc = "queued") ~> (jobs[j].calls = 1)

\* A pool of one thread has run a job that was spawned after every other job
\* had panicked.
C24_Witness ==
    /\ threads = 1
    /\ \E j \in Jobs :
          /\ jobs[j].pc = "done"
          /\ jobs[j].after = NJobs - 1
          /\ Cardinality(Panicked) = NJobs - 1

\* C25: delivery.  For every number of threads given to new, spawn never
\* fails, and every job passed to spawn is called, once.
C25_Delivery ==
    /\ [](\A j \in Jobs : jobs[j].pc # "refused" /\ jobs[j].calls <= 1)
    /\ \A j \in Jobs : (jobs[j].pc \notin {"unspawned", "done", "panicked"})
                          ~> (jobs[j].calls = 1)

\* C26: durable remove under compaction.  When a remove(k) that returned Ok
\* and a compact on another clone have both just returned, the remove being
\* the last write to k, the reopened directory has no value for k: get(k)
\* returns None and list_keys() does not contain k.
C26_DurableRemove ==
    \A t, u \in Clones :
        ( /\ Done(t, "remove") /\ result[t].tag = "Ok"
          /\ Done(u, "compact") /\ result[u].tag = "Ok"
          /\ latest[result[t].key].tag = "Removed" ) =>
            \E o \in {Recovered} :
                /\ o.tag = "Ok"
                /\ RecoveredGet(o, result[t].key) = None
                /\ \A i \in 1..Len(list_keys(o.key_dir)) :
                      list_keys(o.key_dir)[i] # result[t].key

\* C27: writer-lock discipline.  A set and a remove that have appended their
\* record and have not yet stored its entry in the key directory hold the
\* writer mutex.
C27_WriterLock ==
    \A t \in Clones : pc[t] \in {"set_insert", "remove_insert"} => lock = t

\* C28: interrupted compaction loses nothing.  With the clones used one call
\* at a time: when the process stopped inside compact and the directory was
\* opened again, open succeeds and get(k) returns for every key what it
\* returned when that compact began; and when the directory is reopened after
\* calls of which a compact returned an I/O error, open succeeds and get(k)
\* and list_keys() return what they returned just before the close.
C28_InterruptedCompaction ==
    /\ Done(1, "restart") =>
          /\ result[1].tag = "Ok"
          /\ \A k \in Keys : Get(1, k) = before[1].get[1][k]
          /\ list_keys(key_dir) = before[1].keys
    /\ Done(1, "open") =>
          /\ result[1].tag = "Ok"
          /\ \A k \in Keys : Get(1, k) = before[1].get[1][k]
          /\ list_keys(key_dir) = before[1].keys

\* A set(k, v) and a compact on another clone have both just returned Ok, the
\* set being the last write to k.
SetAndCompactDone(t, u) ==
    /\ Done(t, "set") /\ result[t].tag = "Ok"
    /\ Done(u, "compact") /\ result[u].tag = "Ok"
    /\ latest[result[t].key].tag = "Set"

\* get(k) returns Some(v) on every clone, the file that the entry of k names
\* exists, and get(k) returns Some(v) on the reopened directory.
Kept(k, v) ==
    /\ \A x \in Clones : Get(x, k) = Some(v)
    /\ k \in DOMAIN key_dir
    /\ log_path(key_dir[k].file_id) \in DOMAIN files
    /\ RecoveredGet(Recovered, k) = Some(v)

\* C29: set under compaction.  When a set(k, v) and a compact on another
\* clone have both returned, the set being the last write to k, get(k)
\* returns Some(v), the file that holds the record of v is in the directory,
\* and get(k) returns Some(v) after a reopen; for every value v.
C29_SetUnderCompaction ==
    \A t, u \in Clones :
        SetAndCompactDone(t, u) => Kept(result[t].key, latest[result[t].key].val)

\* The same for the sets that write a non-empty value.
SetUnderCompactionNonEmpty ==
    \A t, u \in Clones :
        (SetAndCompactDone(t, u) /\ latest[result[t].key].val # <<>>) =>
            Kept(result[t].key, latest[result[t].key].val)

\* The entry names a file of the directory and, in it, the value of a whole
\* record of key: the record read at the start of its header has this key,
\* this value position and this value length (and a checksum that matches).
ValidEntry(key, entry) ==
    /\ log_path(entry.file_id) \in DOMAIN files
    /\ entry.value_pos >= HeaderSize + Len(key)
    /\ \E r \in {read_next_entry(files[log_path(entry.file_id)],
                                 entry.value_pos - HeaderSize - Len(key),
                                 entry.file_id)} :
          /\ r.tag = "Entry"
          /\ r.key = key
          /\ r.entry.value_pos = entry.value_pos
          /\ r.entry.value_len = entry.value_len

\* C30: directory validity.  In every state, between the steps of concurrent
\* calls and of a compact included, the entry of every key with value_len > 0
\* names a log file that exists, and the value_len bytes at value_pos in it
\* are the value of a record written for that key.
C30_DirectoryValidity ==
    \A k \in DOMAIN key_dir :
        key_dir[k].value_len > 0 => ValidEntry(k, key_dir[k])

\* A compact has released the mutex and has not yet removed the old files:
\* one key has its value in the merge file, and another one was set since, in
\* the new active file, while log files below the merge file still exist.
C30_Witness ==
    \E t \in Clones :
        /\ pc[t] = "compact_delete"
        /\ \E k \in DOMAIN key_dir :
              /\ key_dir[k].value_len > 0
              /\ key_dir[k].file_id = local[t].compaction_file_id
        /\ \E k \in DOMAIN key_dir :
              /\ key_dir[k].value_len > 0
              /\ key_dir[k].file_id > local[t].compaction_file_id
        /\ \E n \in DOMAIN files : n.ext = "log" /\ n.id < local[t].compaction_file_id

\* C31: with the clones used one call at a time, when compact has released
\* the writer mutex and has not yet removed a file, no entry of the key
\* directory, live or tombstone, names a file below the merge file.
C31_NoEntryBelowTarget ==
    \A t \in Clones :
        pc[t] = "compact_delete" =>
            \A k \in DOMAIN key_dir : key_dir[k].file_id >= local[t].compaction_file_id

\* The same for the live entries only.
NoLiveEntryBelowTarget ==
    \A t \in Clones :
        pc[t] = "compact_delete" =>
            \A k \in DOMAIN key_dir :
                key_dir[k].value_len # 0 =>
                    key_dir[k].file_id >= local[t].compaction_file_id

\* C32: stale reader caches.  With the clones used one call at a time, when
\* compact has returned Ok no clone, the one that ran compact or another, has
\* a cached reader of a file below the merge file (the file just below the
\* active one).
C32_NoStaleReader ==
    \A t \in Clones :
        (Done(t, "compact") /\ result[t].tag = "Ok") =>
            \A u \in Clones : \A f \in readers[u] : f >= active_file_id - 1

\* The same for the clone that ran compact.
NoStaleReaderOwn ==
    \A t \in Clones :
        (Done(t, "compact") /\ result[t].tag = "Ok") =>
            \A f \in readers[t] : f >= active_file_id - 1

\* C33: files after compaction.  With the clones used one call at a time:
\* the merge file of a running compact is the file after the one that was
\* active when it began, and when compact has returned Ok the directory holds
\* exactly the merge file, its hint file and the log file after it, which is
\* the active file; every file with a lower id is gone and there is one hint
\* file.
C33_FilesAfterCompaction ==
    \A t \in Clones :
        /\ pc[t] \in {"compact_iter", "compact_insert"} =>
              local[t].compaction_file_id = active_file_id + 1
        /\ pc[t] = "compact_delete" =>
              active_file_id = local[t].compaction_file_id + 1
        /\ (Done(t, "compact") /\ result[t].tag = "Ok") =>
              /\ DOMAIN files = {log_path(active_file_id - 1),
                                 hint_path(active_file_id - 1),
                                 log_path(active_file_id)}
              /\ Cardinality({n \in DOMAIN files : n.ext = "hint"}) = 1

\* A second compact has returned Ok: it has removed the merge and hint files
\* of the first one, and a live key has its value in the new merge file.
C33_Witness ==
    \E t \in Clones :
        /\ Done(t, "compact")
        /\ result[t].tag = "Ok"
        /\ active_file_id >= 4
        /\ \E k \in DOMAIN key_dir :
              key_dir[k].value_len > 0 /\ key_dir[k].file_id = active_file_id - 1

\* C34: foreign files are untouched.  A file of the directory whose name is
\* not <n>.log or <n>.hint stays in the directory with the bytes it had,
\* whatever open and compact do.
C34_ForeignUntouched ==
    /\ ForeignFile \in DOMAIN files
    /\ files[ForeignFile] = ForeignDir[ForeignFile]

\* C35: rotation.  With the clones used one call at a time, when a set or a
\* remove has returned Ok the active file, which receives the next append,
\* is not larger than LOG_SIZE_THRESHOLD, and the entry stored for the key
\* names the file and the place of the record that the call appended.
C35_Rotation ==
    \A t \in Clones :
        ((Done(t, "set") \/ Done(t, "remove")) /\ result[t].tag = "Ok") =>
            /\ Len(files[log_path(active_file_id)]) <= LOG_SIZE_THRESHOLD
            /\ ValidEntry(result[t].key, key_dir[result[t].key])

\* The same for set alone.
RotationOfSet ==
    \A t \in Clones :
        (Done(t, "set") /\ result[t].tag = "Ok") =>
            /\ Len(files[log_path(active_file_id)]) <= LOG_SIZE_THRESHOLD
            /\ ValidEntry(result[t].key, key_dir[result[t].key])

\* active_file_id is above the id of every other file of the directory.
ActiveIsHighest ==
    \A n \in DOMAIN files : n # log_path(active_file_id) => n.id < active_file_id

\* active_file_id never decreases, and a step in which a set or a remove
\* appends its record changes no file but the active one.
ActiveOnly ==
    [][/\ active_file_id' >= active_file_id
       /\ \A t \in Clones :
             (pc[t] # pc'[t] /\ pc'[t] \in {"set_insert", "remove_insert"}) =>
                 /\ Len(files'[log_path(active_file_id)])
                        > Len(files[log_path(active_file_id)])
                 /\ \A n \in DOMAIN files :
                       n # log_path(active_file_id) => files'[n] = files[n]]_vars

HintIdOf(d) ==
    IF \E n \in DOMAIN d : n.ext = "hint"
    THEN Max({n.id : n \in {m \in DOMAIN d : m.ext = "hint"}})
    ELSE NoFile

LogIdsOf(d) ==
    {n.id : n \in {m \in DOMAIN d : m.ext = "log" /\ (HintIdOf(d) = NoFile \/ m.id > HintIdOf(d))}}

\* The records of a hint file and of a log file from pos on, in the order of
\* their offsets, each with its key and the entry that describes it.
RECURSIVE HintRecordsFrom(_, _, _)
HintRecordsFrom(bytes, pos, file_id) ==
    Apply(LAMBDA r : IF r.tag # "Entry" THEN <<>>
                     ELSE <<[key |-> r.key, entry |-> r.entry]>>
                              \o HintRecordsFrom(bytes, r.next, file_id),
          read_next_hint(bytes, pos, file_id))

RECURSIVE LogRecordsFrom(_, _, _)
LogRecordsFrom(bytes, pos, file_id) ==
    Apply(LAMBDA r : IF r.tag # "Entry" THEN <<>>
                     ELSE <<[key |-> r.key, entry |-> r.entry]>>
                              \o LogRecordsFrom(bytes, r.next, file_id),
          read_next_entry(bytes, pos, file_id))

\* The records of the log files ids of d, in ascending file id.
RECURSIVE LogRecordsOf(_, _)
LogRecordsOf(d, ids) ==
    IF ids = {} THEN <<>>
    ELSE Apply(LAMBDA f : LogRecordsFrom(d[log_path(f)], 0, f) \o LogRecordsOf(d, ids \ {f}),
               Min(ids))

\* The hint records and then the log records of d.
Replayed(d) ==
    (IF HintIdOf(d) = NoFile THEN <<>>
     ELSE HintRecordsFrom(d[hint_path(HintIdOf(d))], 0, HintIdOf(d)))
        \o LogRecordsOf(d, LogIdsOf(d))

\* The key directory in which the last occurrence of every key wins.
LastWins(records) ==
    [k \in {records[i].key : i \in DOMAIN records} |->
        records[Max({i \in DOMAIN records : records[i].key = k})].entry]

C38_ResponseMatching ==
    \A t \in Tasks : call[t].response # 0 => call[t].response = call[t].request

\* The same when no call was abandoned: the calls whose handle was dropped
\* had read their response.
NeverAbandoned ==
    \A t \in Tasks : (call[t].request # 0 /\ call[t].response = 0) =>
                        (task_pc[t] = "holding" /\ call[t].ticket = ticket[t])

\* What get has to return for a key: its latest value, None when the key was
\* removed or never set.
KvExpected(key) == IF kv_latest[key] = Unset THEN None ELSE kv_latest[key]

\* C39: the predecessor engine.  After merge has returned Ok, get on the same
\* KvStore returns the latest value of every live key and None for the
\* removed ones, and so it does after the store was dropped and reopened;
\* for a first merge and for the later ones.
C39_MergeKeepsValues ==
    (store.opened = "Ok" /\ kv_merged # "no") =>
        \A key \in Keys : KvGet(key) = KvExpected(key)

\* The part of it about the reopened store.
MergeKeepsValuesReopened ==
    (store.opened = "Ok" /\ kv_merged = "reopened") =>
        \A key \in Keys : KvGet(key) = KvExpected(key)

====
